---- MODULE Spec2Model ----
(***************************************************************************)
(* MohallaHub backend: phone/OTP authentication, the access guards and the *)
(* address verification flow, modelled as a state machine over the         *)
(* persisted user and neighborhood collections.                            *)
(*                                                                         *)
(* Strings that the code inspects character by character (phone numbers,   *)
(* OTP codes, pincodes) are sequences of digits; times are milliseconds.   *)
(***************************************************************************)
EXTENDS Integers, Sequences, FiniteSets, TLC

VARIABLES users, nextUserId, neighborhoods, posts, listings, attempts, tokens,
          now, hist, req, resp, pending, call

vars == <<users, nextUserId, neighborhoods, posts, listings, attempts, tokens,
          now, hist, req, resp, pending, call>>

----------------------------------------------------------------------------
(* Bounds of the model *)

MaxUsers == 1
MaxTicks == 2
MaxRequests == 2
MaxPrecision == 7
MaxNameLen == 3
MaxVerifyRequests == 4
MaxAttemptsLimit == 2
MaxWindowMs == 2
MaxClock == 4
MaxRefused == 1
MaxPosts == 2
MaxListings == 2
MaxViews == 1

UserIds == 1..MaxUsers

----------------------------------------------------------------------------
(* Program constants *)

OtpValidityMs == 10 * 60 * 1000
MaxTime == MaxTicks * OtpValidityMs + 1
MaxOtpAttempts == 3
MaxResendAttempts == 5
OtpBase == 100000
OtpSpan == 900000

\* Math.random() is sampled as RandSamples / RandDen, a value in [0, 1).
RandDen == 1000
RandSamples == {0, 999}

NoDate == -1
NoCode == << >>
NoNeighborhood == 0

\* a reference that is not the string of an ObjectId
InvalidObjectId == -1

----------------------------------------------------------------------------
(* Strings of digits *)

Digits == 0..9

RECURSIVE NumToStr(_)
\* Number.prototype.toString() of a non-negative integer, as its digits.
NumToStr(n) == IF n < 10 THEN <<n>> ELSE Append(NumToStr(n \div 10), n % 10)

IsNumeric(s) == \A i \in 1..Len(s) : s[i] \in Digits

\* /^[6-9]\d{9}$/
PhoneRegex(p) == Len(p) = 10 /\ p[1] \in 6..9 /\ IsNumeric(p)

\* isLength({ min: 6, max: 6 }).isNumeric()
otpValidation(o) == Len(o) = 6 /\ IsNumeric(o)

\* Math.floor(100000 + Math.random() * 900000).toString()
randomOtp(k) == NumToStr(OtpBase + (k * OtpSpan) \div RandDen)

----------------------------------------------------------------------------
(* Strings of characters: sequences of one-character strings *)

UpperChars == <<"A", "B", "C", "D", "E", "F", "G", "H", "I", "J", "K", "L", "M",
                "N", "O", "P", "Q", "R", "S", "T", "U", "V", "W", "X", "Y", "Z">>
LowerChars == <<"a", "b", "c", "d", "e", "f", "g", "h", "i", "j", "k", "l", "m",
                "n", "o", "p", "q", "r", "s", "t", "u", "v", "w", "x", "y", "z">>
DigitChars == <<"0", "1", "2", "3", "4", "5", "6", "7", "8", "9">>

Range(s) == { s[i] : i \in DOMAIN s }

\* String.prototype.toLowerCase, one character
UpperSet == Range(UpperChars)

ToLowerChar(c) ==
  IF c \in UpperSet
    THEN LowerChars[CHOOSE i \in 1..26 : UpperChars[i] = c]
    ELSE c

ToLowerCase(s) == [i \in 1..Len(s) |-> ToLowerChar(s[i])]

\* the characters of a string of digits
DigitsToChars(d) == [i \in 1..Len(d) |-> DigitChars[d[i] + 1]]

LetterOrSpaceChars == Range(UpperChars) \cup Range(LowerChars) \cup {" "}
SlugChars == Range(LowerChars) \cup Range(DigitChars)

\* /^[a-zA-Z\s]+$/
LettersAndSpaces(s) ==
  /\ Len(s) >= 1
  /\ \A i \in 1..Len(s) : s[i] \in LetterOrSpaceChars

RECURSIVE TrimLeft(_)
TrimLeft(s) == IF s # << >> /\ Head(s) = " " THEN TrimLeft(Tail(s)) ELSE s

RECURSIVE TrimRight(_)
TrimRight(s) ==
  IF s # << >> /\ s[Len(s)] = " " THEN TrimRight(SubSeq(s, 1, Len(s) - 1)) ELSE s

\* the schema's trim: true
Trim(s) == TrimRight(TrimLeft(s))

\* [a-z0-9]
SlugChar(c) == c \in SlugChars

RECURSIVE ReplaceRuns_eachChar(_, _)
\* .replace(/[^a-z0-9]/g, '-'): every character replaced on its own
ReplaceRuns_eachChar(s, inRun) ==
  IF s = << >> THEN << >>
  ELSE IF SlugChar(Head(s)) THEN <<Head(s)>> \o ReplaceRuns_eachChar(Tail(s), FALSE)
  ELSE <<"-">> \o ReplaceRuns_eachChar(Tail(s), TRUE)

RECURSIVE ReplaceRuns(_, _)
\* .replace(/[^a-z0-9]+/g, '-'): inRun tells whether the previous character
\* belonged to a run that was already replaced
ReplaceRuns(s, inRun) ==
  IF s = << >> THEN << >>
  ELSE IF SlugChar(Head(s)) THEN <<Head(s)>> \o ReplaceRuns(Tail(s), FALSE)
  ELSE IF inRun THEN ReplaceRuns(Tail(s), TRUE)
  ELSE <<"-">> \o ReplaceRuns(Tail(s), TRUE)

\* .replace(/^-|-$/g, '')
StripDashes(s) ==
  LET a == IF s # << >> /\ Head(s) = "-" THEN Tail(s) ELSE s
  IN IF a # << >> /\ a[Len(a)] = "-" THEN SubSeq(a, 1, Len(a) - 1) ELSE a

\* the slug of neighborhoodSchema.pre('validate')
slugify(name) == StripDashes(ReplaceRuns(ToLowerCase(name), FALSE))

----------------------------------------------------------------------------
(* Geohash.  Coordinates are integers in units of 1/CoordScale degree, so  *)
(* that every midpoint of the bisection is an integer.                     *)

CoordScale == 262144
GeohashPrecision == 7

base32 == <<"0", "1", "2", "3", "4", "5", "6", "7", "8", "9", "b", "c", "d",
            "e", "f", "g", "h", "j", "k", "m", "n", "p", "q", "r", "s", "t",
            "u", "v", "w", "x", "y", "z">>

RECURSIVE GeohashLoop_strict(_, _, _, _, _, _, _, _, _, _, _)
\* a loop that sets a bit only when the coordinate is above the midpoint
GeohashLoop_strict(i, n, lat, lng, minLat, maxLat, minLng, maxLng, bits, bitCount, hash) ==
  IF i >= n THEN hash
  ELSE
    LET isLng == (i % 2 = 0)
        mid == IF isLng THEN (minLng + maxLng) \div 2 ELSE (minLat + maxLat) \div 2
        one == IF isLng THEN lng > mid ELSE lat > mid
        bits1 == IF one THEN bits * 2 + 1 ELSE bits * 2
        minLat1 == IF ~isLng /\ one THEN mid ELSE minLat
        maxLat1 == IF ~isLng /\ ~one THEN mid ELSE maxLat
        minLng1 == IF isLng /\ one THEN mid ELSE minLng
        maxLng1 == IF isLng /\ ~one THEN mid ELSE maxLng
        emit == (bitCount + 1 = 5)
    IN GeohashLoop_strict(i + 1, n, lat, lng, minLat1, maxLat1, minLng1, maxLng1,
                   IF emit THEN 0 ELSE bits1,
                   IF emit THEN 0 ELSE bitCount + 1,
                   IF emit THEN Append(hash, base32[bits1 + 1]) ELSE hash)

RECURSIVE GeohashLoop(_, _, _, _, _, _, _, _, _, _, _)
\* the for loop of generateGeohash, from iteration i
GeohashLoop(i, n, lat, lng, minLat, maxLat, minLng, maxLng, bits, bitCount, hash) ==
  IF i >= n THEN hash
  ELSE
    LET isLng == (i % 2 = 0)
        mid == IF isLng THEN (minLng + maxLng) \div 2 ELSE (minLat + maxLat) \div 2
        one == IF isLng THEN lng >= mid ELSE lat >= mid
        bits1 == IF one THEN bits * 2 + 1 ELSE bits * 2
        minLat1 == IF ~isLng /\ one THEN mid ELSE minLat
        maxLat1 == IF ~isLng /\ ~one THEN mid ELSE maxLat
        minLng1 == IF isLng /\ one THEN mid ELSE minLng
        maxLng1 == IF isLng /\ ~one THEN mid ELSE maxLng
        emit == (bitCount + 1 = 5)
    IN GeohashLoop(i + 1, n, lat, lng, minLat1, maxLat1, minLng1, maxLng1,
                   IF emit THEN 0 ELSE bits1,
                   IF emit THEN 0 ELSE bitCount + 1,
                   IF emit THEN Append(hash, base32[bits1 + 1]) ELSE hash)

\* a generateGeohash whose first bisection depends on the precision:
\* latitude first when the precision is odd
generateGeohash_latitudeFirst(lat, lng, precision) ==
  GeohashLoop(precision % 2, precision * 5 + (precision % 2), lat, lng,
              -90 * CoordScale, 90 * CoordScale,
              -180 * CoordScale, 180 * CoordScale, 0, 0, << >>)

generateGeohash(lat, lng, precision) ==
  GeohashLoop(0, precision * 5, lat, lng,
              -90 * CoordScale, 90 * CoordScale,
              -180 * CoordScale, 180 * CoordScale, 0, 0, << >>)

----------------------------------------------------------------------------
(* The Neighborhood document *)

NoCoords == << >>
ZeroCoords == <<0, 0>>

NoStats == [totalResidents |-> 0, verifiedResidents |-> 0, totalPosts |-> 0,
            activeEvents |-> 0, marketplaceListings |-> 0]

\* neighborhoodSchema.pre('validate'): slug and geohash of a new document
preValidate(n) ==
  [n EXCEPT !.slug = IF n.name # << >> THEN slugify(n.name) ELSE @,
            !.geohash = generateGeohash(n.coordinates[1], n.coordinates[2],
                                        GeohashPrecision)]

\* the document built by Neighborhood.create in verifyAddress
NewNeighborhood(pincode, fullAddress, city, state, coordinates) ==
  preValidate(
    [name |-> Trim(city \o <<" ", "-", " ">> \o DigitsToChars(pincode)),
     slug |-> << >>, full |-> fullAddress, pincode |-> pincode, city |-> city,
     state |-> state,
     coordinates |-> IF coordinates = NoCoords THEN ZeroCoords ELSE coordinates,
     geohash |-> << >>, stats |-> NoStats])

\* a findOne that queries a path the schema does not have and finds nothing
findOneByPincode_wrongPath(nbs, pincode) == 0

\* Neighborhood.findOne({ 'location.address.pincode': pincode }): the id of
\* the first such record, 0 if none
findOneByPincode(nbs, pincode) ==
  IF \E i \in DOMAIN nbs : nbs[i].pincode = pincode
    THEN CHOOSE i \in DOMAIN nbs :
           /\ nbs[i].pincode = pincode
           /\ \A j \in DOMAIN nbs : nbs[j].pincode = pincode => i <= j
    ELSE 0

\* a slug field without its unique index
slugTaken_noIndex(nbs, slug) == FALSE

\* the unique index on slug
slugTaken(nbs, slug) == \E i \in DOMAIN nbs : nbs[i].slug = slug

\* neighborhoodSchema.pre('validate') on the save of a stored document whose
\* name was not modified: the slug stays, the geohash is derived again
preValidateSaved(n) ==
  [n EXCEPT !.geohash = generateGeohash(n.coordinates[1], n.coordinates[2],
                                        GeohashPrecision)]

\* an updateStats that counts the posts of every status
updateStats_allPosts(n, id, us, ps) ==
  preValidateSaved(
    [n EXCEPT !.stats =
       [@ EXCEPT
          !.totalResidents = Cardinality({ i \in DOMAIN us :
               us[i].neighborhood = id /\ us[i].status = "active" }),
          !.verifiedResidents = Cardinality({ i \in DOMAIN us :
               /\ us[i].neighborhood = id /\ us[i].status = "active"
               /\ us[i].isPhoneVerified /\ us[i].isAddressVerified }),
          !.totalPosts = Cardinality({ p \in ps : p.neighborhood = id })]])

\* neighborhoodSchema.methods.updateStats against the given collections
updateStats(n, id, us, ps) ==
  preValidateSaved(
    [n EXCEPT !.stats =
       [@ EXCEPT
          !.totalResidents = Cardinality({ i \in DOMAIN us :
               us[i].neighborhood = id /\ us[i].status = "active" }),
          !.verifiedResidents = Cardinality({ i \in DOMAIN us :
               /\ us[i].neighborhood = id /\ us[i].status = "active"
               /\ us[i].isPhoneVerified /\ us[i].isAddressVerified }),
          !.totalPosts = Cardinality({ p \in ps :
               p.neighborhood = id /\ p.status = "active" })]])

----------------------------------------------------------------------------
(* The User document *)

NoAddress == [fullAddress |-> << >>, pincode |-> << >>, city |-> << >>,
              state |-> << >>, coordinates |-> <<0, 0>>, geohash |-> << >>]

ClearedOtp == [code |-> NoCode, expiresAt |-> NoDate, attempts |-> 0]

\* Schema defaults of a new document
NewUser(phone) ==
  [phone |-> phone, isPhoneVerified |-> FALSE, otp |-> ClearedOtp,
   name |-> << >>, address |-> NoAddress, isAddressVerified |-> FALSE,
   neighborhood |-> NoNeighborhood, status |-> "active", role |-> "user",
   verificationLevel |-> "basic"]

\* userSchema.pre('save')
preSave(u) ==
  [u EXCEPT !.verificationLevel =
     IF u.isPhoneVerified /\ u.isAddressVerified THEN "verified"
     ELSE IF u.isAddressVerified THEN "address"
     ELSE IF u.isPhoneVerified THEN "phone"
     ELSE "basic"]

\* User.findOne({ phone }): the id of the user with that phone, 0 if none
findOneByPhone(phone) ==
  IF \E i \in DOMAIN users : users[i].phone = phone
    THEN CHOOSE i \in DOMAIN users : users[i].phone = phone
    ELSE 0

\* userSchema.methods.generateOTP
generateOTP(u, k, t) ==
  [u EXCEPT !.otp = [code |-> randomOtp(k), expiresAt |-> t + OtpValidityMs,
                     attempts |-> 0]]

\* verifyOTP that lets the counter reach MaxOtpAttempts + 1 before it refuses
User_verifyOTP_lateLimit(u, otpCode, t) ==
  IF u.otp.code = NoCode \/ u.otp.expiresAt = NoDate
    THEN [user |-> u, valid |-> FALSE, message |-> "No OTP found"]
  ELSE IF u.otp.attempts > MaxOtpAttempts
    THEN [user |-> u, valid |-> FALSE, message |-> "Maximum attempts exceeded"]
  ELSE IF t > u.otp.expiresAt
    THEN [user |-> u, valid |-> FALSE, message |-> "OTP expired"]
  ELSE IF u.otp.code # otpCode
    THEN [user |-> [u EXCEPT !.otp.attempts = @ + 1],
          valid |-> FALSE, message |-> "Invalid OTP"]
  ELSE [user |-> [u EXCEPT !.isPhoneVerified = TRUE, !.otp = ClearedOtp],
        valid |-> TRUE, message |-> "OTP verified successfully"]

\* verifyOTP that drops the challenge when it finds it expired
User_verifyOTP_dropExpired(u, otpCode, t) ==
  IF u.otp.code = NoCode \/ u.otp.expiresAt = NoDate
    THEN [user |-> u, valid |-> FALSE, message |-> "No OTP found"]
  ELSE IF u.otp.attempts >= MaxOtpAttempts
    THEN [user |-> u, valid |-> FALSE, message |-> "Maximum attempts exceeded"]
  ELSE IF t > u.otp.expiresAt
    THEN [user |-> [u EXCEPT !.otp = ClearedOtp],
          valid |-> FALSE, message |-> "OTP expired"]
  ELSE IF u.otp.code # otpCode
    THEN [user |-> [u EXCEPT !.otp.attempts = @ + 1],
          valid |-> FALSE, message |-> "Invalid OTP"]
  ELSE [user |-> [u EXCEPT !.isPhoneVerified = TRUE, !.otp = ClearedOtp],
        valid |-> TRUE, message |-> "OTP verified successfully"]

\* verifyOTP that checks the expiry before the attempt counter
User_verifyOTP_expiryFirst(u, otpCode, t) ==
  IF u.otp.code = NoCode \/ u.otp.expiresAt = NoDate
    THEN [user |-> u, valid |-> FALSE, message |-> "No OTP found"]
  ELSE IF t > u.otp.expiresAt
    THEN [user |-> u, valid |-> FALSE, message |-> "OTP expired"]
  ELSE IF u.otp.attempts >= MaxOtpAttempts
    THEN [user |-> u, valid |-> FALSE, message |-> "Maximum attempts exceeded"]
  ELSE IF u.otp.code # otpCode
    THEN [user |-> [u EXCEPT !.otp.attempts = @ + 1],
          valid |-> FALSE, message |-> "Invalid OTP"]
  ELSE [user |-> [u EXCEPT !.isPhoneVerified = TRUE, !.otp = ClearedOtp],
        valid |-> TRUE, message |-> "OTP verified successfully"]

\* verifyOTP without the check of the expiry
User_verifyOTP_noExpiry(u, otpCode, t) ==
  IF u.otp.code = NoCode \/ u.otp.expiresAt = NoDate
    THEN [user |-> u, valid |-> FALSE, message |-> "No OTP found"]
  ELSE IF u.otp.attempts >= MaxOtpAttempts
    THEN [user |-> u, valid |-> FALSE, message |-> "Maximum attempts exceeded"]
  ELSE IF u.otp.code # otpCode
    THEN [user |-> [u EXCEPT !.otp.attempts = @ + 1],
          valid |-> FALSE, message |-> "Invalid OTP"]
  ELSE [user |-> [u EXCEPT !.isPhoneVerified = TRUE, !.otp = ClearedOtp],
        valid |-> TRUE, message |-> "OTP verified successfully"]

\* userSchema.methods.verifyOTP: the mutated document and the result
User_verifyOTP(u, otpCode, t) ==
  IF u.otp.code = NoCode \/ u.otp.expiresAt = NoDate
    THEN [user |-> u, valid |-> FALSE, message |-> "No OTP found"]
  ELSE IF u.otp.attempts >= MaxOtpAttempts
    THEN [user |-> u, valid |-> FALSE, message |-> "Maximum attempts exceeded"]
  ELSE IF t > u.otp.expiresAt
    THEN [user |-> u, valid |-> FALSE, message |-> "OTP expired"]
  ELSE IF u.otp.code # otpCode
    THEN [user |-> [u EXCEPT !.otp.attempts = @ + 1],
          valid |-> FALSE, message |-> "Invalid OTP"]
  ELSE [user |-> [u EXCEPT !.isPhoneVerified = TRUE, !.otp = ClearedOtp],
        valid |-> TRUE, message |-> "OTP verified successfully"]

----------------------------------------------------------------------------
(* Requests and responses *)

NoAuth == [kind |-> "none", sub |-> 0]

\* the last request handled: operation, body fields, credentials, req.path
Request(op, phone, otp, auth, path) ==
  [op |-> op, phone |-> phone, otp |-> otp, auth |-> auth, path |-> path]

\* status: HTTP status sent (0: none sent); user: the id attached to
\* req.user (0: none); next: number of next() calls of the guard;
\* level: verificationLevel in the body; token: subject of the issued JWT;
\* otp: the code returned or sent out of band
Response(status, message) ==
  [status |-> status, message |-> message, user |-> 0, next |-> 0,
   level |-> "", token |-> 0, otp |-> NoCode]

\* History of the outstanding challenge of a user, kept for the users in
\* DOMAIN hist: verifyOTP calls since it was issued that carried a code other
\* than the stored one, calls answered 'Invalid OTP', and the code accepted.
NoHist == [wrong |-> 0, invalid |-> 0, accepted |-> NoCode]

Sat(n) == IF n >= MaxOtpAttempts THEN MaxOtpAttempts ELSE n + 1

Issued(h, id) == IF id \in DOMAIN h THEN [h EXCEPT ![id] = NoHist] ELSE h

Verified(h, id, u, otp, result) ==
  IF id \notin DOMAIN h THEN h
  ELSE [h EXCEPT ![id] =
         [wrong |-> IF u.otp.code # NoCode /\ otp # u.otp.code
                      THEN Sat(@.wrong) ELSE @.wrong,
          invalid |-> IF result.message = "Invalid OTP"
                        THEN Sat(@.invalid) ELSE @.invalid,
          accepted |-> IF result.valid THEN otp ELSE @.accepted]]

----------------------------------------------------------------------------
(* Validation chains of the routes *)

NoName == << >>

\* nameValidation: optional, 2..50 letters and spaces
nameValidation(name) ==
  name = NoName \/ (Len(name) >= 2 /\ Len(name) <= 50 /\ LettersAndSpaces(name))

\* addressValidation without the rule on fullAddress
addressValidation_noFullAddress(pincode, fullAddress, city, state, coordinates) ==
  /\ Len(pincode) = 6 /\ IsNumeric(pincode)
  /\ Len(city) >= 2 /\ Len(city) <= 50 /\ LettersAndSpaces(city)
  /\ Len(state) >= 2 /\ Len(state) <= 50 /\ LettersAndSpaces(state)

\* addressValidation
addressValidation(pincode, fullAddress, city, state, coordinates) ==
  /\ Len(pincode) = 6 /\ IsNumeric(pincode)
  /\ Len(fullAddress) >= 10 /\ Len(fullAddress) <= 500
  /\ Len(city) >= 2 /\ Len(city) <= 50 /\ LettersAndSpaces(city)
  /\ Len(state) >= 2 /\ Len(state) <= 50 /\ LettersAndSpaces(state)
  /\ coordinates # NoCoords =>
       /\ coordinates[1] >= -90 * CoordScale /\ coordinates[1] <= 90 * CoordScale
       /\ coordinates[2] >= -180 * CoordScale /\ coordinates[2] <= 180 * CoordScale

\* addressValidation of the neighborhoods router: no rule on coordinates
neighborhoodsAddressValidation(pincode, fullAddress, city, state, coordinates) ==
  /\ Len(pincode) = 6 /\ IsNumeric(pincode)
  /\ Len(fullAddress) >= 10 /\ Len(fullAddress) <= 500
  /\ Len(city) >= 2 /\ Len(city) <= 50 /\ LettersAndSpaces(city)
  /\ Len(state) >= 2 /\ Len(state) <= 50 /\ LettersAndSpaces(state)

----------------------------------------------------------------------------
(* Middleware *)

\* jwt.verify: throws unless the signature is good and the token unexpired
jwtVerify(auth) == auth.kind = "valid"

\* protect that demands a verified phone on every path
protect_noExemption(auth, path) ==
  IF auth.kind = "none"
    THEN Response(401, "Not authorized to access this route")
  ELSE IF ~jwtVerify(auth)
    THEN Response(401, "Not authorized to access this route")
  ELSE IF auth.sub \notin DOMAIN users
    THEN Response(401, "User no longer exists")
  ELSE IF users[auth.sub].status # "active"
    THEN Response(401, "Account is suspended or deleted")
  ELSE IF ~users[auth.sub].isPhoneVerified
    THEN Response(403, "Please verify your phone number first")
  ELSE [Response(0, "") EXCEPT !.user = auth.sub, !.next = 1]

\* protect that trusts the token and does not look at the account status
protect_noStatusCheck(auth, path) ==
  IF auth.kind = "none"
    THEN Response(401, "Not authorized to access this route")
  ELSE IF ~jwtVerify(auth)
    THEN Response(401, "Not authorized to access this route")
  ELSE IF auth.sub \notin DOMAIN users
    THEN Response(401, "User no longer exists")
  ELSE IF ~users[auth.sub].isPhoneVerified /\ path # "/update-profile"
    THEN Response(403, "Please verify your phone number first")
  ELSE [Response(0, "") EXCEPT !.user = auth.sub, !.next = 1]

\* exports.protect: the response it sends, or the user it attaches
protect(auth, path) ==
  IF auth.kind = "none"
    THEN Response(401, "Not authorized to access this route")
  ELSE IF ~jwtVerify(auth)
    THEN Response(401, "Not authorized to access this route")
  ELSE IF auth.sub \notin DOMAIN users
    THEN Response(401, "User no longer exists")
  ELSE IF users[auth.sub].status # "active"
    THEN Response(401, "Account is suspended or deleted")
  ELSE IF ~users[auth.sub].isPhoneVerified /\ path # "/update-profile"
    THEN Response(403, "Please verify your phone number first")
  ELSE [Response(0, "") EXCEPT !.user = auth.sub, !.next = 1]

\* optionalAuth that attaches every user it finds, whatever the status
optionalAuth_anyStatus(auth) ==
  IF auth.kind = "none"
    THEN [Response(0, "") EXCEPT !.next = 1]
  ELSE IF ~jwtVerify(auth)
    THEN [Response(0, "") EXCEPT !.next = 1]
  ELSE IF auth.sub \in DOMAIN users
    THEN [Response(0, "") EXCEPT !.user = auth.sub, !.next = 1]
  ELSE [Response(0, "") EXCEPT !.next = 1]

\* exports.optionalAuth
optionalAuth(auth) ==
  IF auth.kind = "none"
    THEN [Response(0, "") EXCEPT !.next = 1]
  ELSE IF ~jwtVerify(auth)
    THEN [Response(0, "") EXCEPT !.next = 1]
  ELSE IF auth.sub \in DOMAIN users /\ users[auth.sub].status = "active"
    THEN [Response(0, "") EXCEPT !.user = auth.sub, !.next = 1]
  ELSE [Response(0, "") EXCEPT !.next = 1]

\* the response of a handler that ran behind a guard
Behind(g, r) == [r EXCEPT !.user = g.user, !.next = g.next]

\* the last application of a function or method outside a request: its
\* name, arguments and result
NoCall == [fn |-> "", args |-> << >>, result |-> << >>]

----------------------------------------------------------------------------
(* Initial states *)

InitCommon ==
  /\ users = << >>
  /\ nextUserId = 1
  /\ neighborhoods = << >>
  /\ posts = {}
  /\ listings = {}
  /\ attempts = << >>
  /\ tokens = {}
  /\ now = 0
  /\ req = Request("init", << >>, << >>, NoAuth, "")
  /\ resp = Response(0, "")
  /\ pending = << >>
  /\ call = NoCall

Init == InitCommon /\ hist = << >>

InitOtp == InitCommon /\ hist = [i \in UserIds |-> NoHist]

----------------------------------------------------------------------------
(* POST /api/auth/register *)
register(phone, name, k) ==
  /\ req' = Request("register", phone, << >>, NoAuth, "/register")
  /\ IF ~PhoneRegex(phone) \/ ~nameValidation(name)
       THEN /\ resp' = Response(400, "Validation failed")
            /\ UNCHANGED <<users, nextUserId, hist>>
     ELSE IF findOneByPhone(phone) # 0
       THEN /\ resp' = Response(400, "User already exists with this phone number")
            /\ UNCHANGED <<users, nextUserId, hist>>
     ELSE /\ nextUserId <= MaxUsers
          /\ users' = (nextUserId :> preSave(
                 [NewUser(phone) EXCEPT
                    !.name = IF name # NoName THEN name
                             ELSE <<"U", "s", "e", "r">> \o
                                  DigitsToChars(SubSeq(phone, 7, 10)),
                    !.otp = [code |-> randomOtp(k),
                             expiresAt |-> now + OtpValidityMs,
                             attempts |-> 0]])) @@ users
          /\ nextUserId' = nextUserId + 1
          /\ hist' = Issued(hist, nextUserId)
          /\ resp' = [Response(201, "Registration successful. Please verify your phone number.")
                        EXCEPT !.otp = randomOtp(k)]
  /\ UNCHANGED <<neighborhoods, posts, listings, attempts, tokens, now,
                 pending, call>>

(* POST /api/auth/login *)
login(phone, k) ==
  LET id == findOneByPhone(phone) IN
  /\ req' = Request("login", phone, << >>, NoAuth, "/login")
  /\ IF ~PhoneRegex(phone)
       THEN /\ resp' = Response(400, "Validation failed")
            /\ UNCHANGED <<users, hist>>
     ELSE IF id = 0
       THEN /\ resp' = Response(404, "User not found with this phone number")
            /\ UNCHANGED <<users, hist>>
     ELSE IF users[id].status # "active"
       THEN /\ resp' = Response(403, "Account is suspended or deleted")
            /\ UNCHANGED <<users, hist>>
     ELSE /\ users' = [users EXCEPT ![id] = preSave(
                 [@ EXCEPT !.otp = [code |-> randomOtp(k),
                                    expiresAt |-> now + OtpValidityMs,
                                    attempts |-> 0]])]
          /\ hist' = Issued(hist, id)
          /\ resp' = [Response(200, "OTP sent successfully")
                        EXCEPT !.otp = randomOtp(k)]
  /\ UNCHANGED <<nextUserId, neighborhoods, posts, listings, attempts, tokens, now,
                 pending, call>>

(* a verify-otp that does not save the user after a refusal *)
verifyOTP_unsavedAttempt(phone, otp) ==
  LET id == findOneByPhone(phone) IN
  /\ req' = Request("verifyOTP", phone, otp, NoAuth, "/verify-otp")
  /\ IF ~PhoneRegex(phone) \/ ~otpValidation(otp)
       THEN /\ resp' = Response(400, "Validation failed")
            /\ UNCHANGED <<users, tokens, hist>>
     ELSE IF id = 0
       THEN /\ resp' = Response(404, "User not found")
            /\ UNCHANGED <<users, tokens, hist>>
     ELSE LET otpResult == User_verifyOTP(users[id], otp, now) IN
          /\ hist' = Verified(hist, id, users[id], otp, otpResult)
          /\ IF ~otpResult.valid
               THEN /\ resp' = Response(400, otpResult.message)
                    /\ UNCHANGED <<users, tokens>>
               ELSE /\ users' = [users EXCEPT ![id] = preSave(otpResult.user)]
                    /\ tokens' = tokens \cup {id}
                    /\ resp' = [Response(200, "Phone number verified successfully")
                                  EXCEPT !.token = id,
                                         !.level = preSave(otpResult.user).verificationLevel]
  /\ UNCHANGED <<nextUserId, neighborhoods, posts, listings, attempts, now,
                 pending, call>>

(* POST /api/auth/verify-otp *)
verifyOTP(phone, otp) ==
  LET id == findOneByPhone(phone) IN
  /\ req' = Request("verifyOTP", phone, otp, NoAuth, "/verify-otp")
  /\ IF ~PhoneRegex(phone) \/ ~otpValidation(otp)
       THEN /\ resp' = Response(400, "Validation failed")
            /\ UNCHANGED <<users, tokens, hist>>
     ELSE IF id = 0
       THEN /\ resp' = Response(404, "User not found")
            /\ UNCHANGED <<users, tokens, hist>>
     ELSE LET otpResult == User_verifyOTP(users[id], otp, now) IN
          /\ users' = [users EXCEPT ![id] = preSave(otpResult.user)]
          /\ hist' = Verified(hist, id, users[id], otp, otpResult)
          /\ IF ~otpResult.valid
               THEN /\ resp' = Response(400, otpResult.message)
                    /\ UNCHANGED tokens
               ELSE /\ tokens' = tokens \cup {id}
                    /\ resp' = [Response(200, "Phone number verified successfully")
                                  EXCEPT !.token = id,
                                         !.level = preSave(otpResult.user).verificationLevel]
  /\ UNCHANGED <<nextUserId, neighborhoods, posts, listings, attempts, now,
                 pending, call>>

(* POST /api/auth/resend-otp *)
resendOTP(phone, k) ==
  LET id == findOneByPhone(phone) IN
  /\ req' = Request("resendOTP", phone, << >>, NoAuth, "/resend-otp")
  /\ IF ~PhoneRegex(phone)
       THEN /\ resp' = Response(400, "Validation failed")
            /\ UNCHANGED <<users, hist>>
     ELSE IF id = 0
       THEN /\ resp' = Response(404, "User not found")
            /\ UNCHANGED <<users, hist>>
     ELSE IF users[id].otp.attempts >= MaxResendAttempts
       THEN /\ resp' = Response(429, "Too many OTP requests. Please try again later.")
            /\ UNCHANGED <<users, hist>>
     ELSE /\ users' = [users EXCEPT ![id] = preSave(
                 [@ EXCEPT !.otp = [code |-> randomOtp(k),
                                    expiresAt |-> now + OtpValidityMs,
                                    attempts |-> @.attempts + 1]])]
          /\ hist' = Issued(hist, id)
          /\ resp' = [Response(200, "OTP resent successfully")
                        EXCEPT !.otp = randomOtp(k)]
  /\ UNCHANGED <<nextUserId, neighborhoods, posts, listings, attempts, tokens, now,
                 pending, call>>

(* GET /api/auth/me, behind protect *)
getMe(auth) ==
  LET g == protect(auth, "/me") IN
  /\ req' = Request("getMe", << >>, << >>, auth, "/me")
  /\ resp' = IF g.next = 0 THEN g
             ELSE Behind(g, [Response(200, "") EXCEPT
                               !.level = users[g.user].verificationLevel])
  /\ UNCHANGED <<users, nextUserId, neighborhoods, posts, listings, attempts, tokens, now, hist,
                 pending, call>>

(* PUT /api/auth/update-profile, behind protect *)
updateProfile(auth, name) ==
  LET g == protect(auth, "/update-profile") IN
  /\ req' = Request("updateProfile", << >>, << >>, auth, "/update-profile")
  /\ IF g.next = 0
       THEN /\ resp' = g
            /\ UNCHANGED users
     ELSE IF ~nameValidation(name)
       THEN /\ resp' = Behind(g, Response(400, "Validation failed"))
            /\ UNCHANGED users
     ELSE /\ users' = [users EXCEPT ![g.user].name =
                          IF name # NoName THEN name ELSE @]
          /\ resp' = Behind(g, [Response(200, "Profile updated successfully")
                                  EXCEPT !.level = users[g.user].verificationLevel])
  /\ UNCHANGED <<nextUserId, neighborhoods, posts, listings, attempts, tokens, now, hist,
                 pending, call>>

(* verify-address that writes the address of the request into the record  *)
(* it resolved                                                              *)
verifyAddress_overwrite(auth, body) ==
  LET pincode == body.pincode
      fullAddress == body.fullAddress
      city == body.city
      state == body.state
      coordinates == body.coordinates
      g == protect(auth, "/verify-address")
      found == findOneByPincode(neighborhoods, pincode)
      \* the rest of the handler, given the document Neighborhood.create builds
      handle(created) ==
        LET nbs == IF found = 0 THEN Append(neighborhoods, created)
                   ELSE [neighborhoods EXCEPT ![found] =
                           [@ EXCEPT !.full = fullAddress, !.city = city,
                                     !.state = state,
                                     !.coordinates = created.coordinates]]
            nid == IF found = 0 THEN Len(neighborhoods) + 1 ELSE found
            updated == [users EXCEPT ![g.user] =
                          [@ EXCEPT
                             !.address =
                                [fullAddress |-> fullAddress, pincode |-> pincode,
                                 city |-> city, state |-> state,
                                 coordinates |-> IF coordinates = NoCoords
                                                   THEN ZeroCoords ELSE coordinates,
                                 geohash |-> nbs[nid].geohash],
                             !.neighborhood = nid,
                             !.isAddressVerified = TRUE]]
        IN
        IF found = 0 /\ slugTaken(neighborhoods, created.slug)
          THEN /\ resp' = Behind(g, Response(400, "Duplicate field value entered for slug"))
               /\ UNCHANGED <<users, neighborhoods>>
        ELSE /\ users' = updated
             /\ neighborhoods' = [nbs EXCEPT ![nid] = updateStats(@, nid, updated, posts)]
             /\ resp' = Behind(g, [Response(200, "Address verified successfully")
                                     EXCEPT !.level = updated[g.user].verificationLevel])
  IN
  /\ req' = Request("verifyAddress", << >>, << >>, auth, "/verify-address")
  /\ IF g.next = 0
       THEN /\ resp' = g
            /\ UNCHANGED <<users, neighborhoods>>
     ELSE IF ~addressValidation(pincode, fullAddress, city, state, coordinates)
       THEN /\ resp' = Behind(g, Response(400, "Validation failed"))
            /\ UNCHANGED <<users, neighborhoods>>
     ELSE handle(NewNeighborhood(pincode, fullAddress, city, state, coordinates))
  /\ UNCHANGED <<nextUserId, posts, listings, attempts, tokens, now, hist,
                 pending, call>>

(* verify-address that recomputes the stats before it updates the user *)
verifyAddress_statsFirst(auth, body) ==
  LET pincode == body.pincode
      fullAddress == body.fullAddress
      city == body.city
      state == body.state
      coordinates == body.coordinates
      g == protect(auth, "/verify-address")
      found == findOneByPincode(neighborhoods, pincode)
      \* the rest of the handler, given the document Neighborhood.create builds
      handle(created) ==
        LET nbs == IF found = 0 THEN Append(neighborhoods, created)
                   ELSE neighborhoods
            nid == IF found = 0 THEN Len(neighborhoods) + 1 ELSE found
            updated == [users EXCEPT ![g.user] =
                          [@ EXCEPT
                             !.address =
                                [fullAddress |-> fullAddress, pincode |-> pincode,
                                 city |-> city, state |-> state,
                                 coordinates |-> IF coordinates = NoCoords
                                                   THEN ZeroCoords ELSE coordinates,
                                 geohash |-> nbs[nid].geohash],
                             !.neighborhood = nid,
                             !.isAddressVerified = TRUE]]
        IN
        IF found = 0 /\ slugTaken(neighborhoods, created.slug)
          THEN /\ resp' = Behind(g, Response(400, "Duplicate field value entered for slug"))
               /\ UNCHANGED <<users, neighborhoods>>
        ELSE /\ users' = updated
             /\ neighborhoods' = [nbs EXCEPT ![nid] = updateStats(@, nid, users, posts)]
             /\ resp' = Behind(g, [Response(200, "Address verified successfully")
                                     EXCEPT !.level = updated[g.user].verificationLevel])
  IN
  /\ req' = Request("verifyAddress", << >>, << >>, auth, "/verify-address")
  /\ IF g.next = 0
       THEN /\ resp' = g
            /\ UNCHANGED <<users, neighborhoods>>
     ELSE IF ~addressValidation(pincode, fullAddress, city, state, coordinates)
       THEN /\ resp' = Behind(g, Response(400, "Validation failed"))
            /\ UNCHANGED <<users, neighborhoods>>
     ELSE handle(NewNeighborhood(pincode, fullAddress, city, state, coordinates))
  /\ UNCHANGED <<nextUserId, posts, listings, attempts, tokens, now, hist,
                 pending, call>>

(* POST /api/auth/verify-address, behind protect *)
verifyAddress(auth, body) ==
  LET pincode == body.pincode
      fullAddress == body.fullAddress
      city == body.city
      state == body.state
      coordinates == body.coordinates
      g == protect(auth, "/verify-address")
      found == findOneByPincode(neighborhoods, pincode)
      \* the rest of the handler, given the document Neighborhood.create builds
      handle(created) ==
        LET nbs == IF found = 0 THEN Append(neighborhoods, created)
                   ELSE neighborhoods
            nid == IF found = 0 THEN Len(neighborhoods) + 1 ELSE found
            updated == [users EXCEPT ![g.user] =
                          [@ EXCEPT
                             !.address =
                                [fullAddress |-> fullAddress, pincode |-> pincode,
                                 city |-> city, state |-> state,
                                 coordinates |-> IF coordinates = NoCoords
                                                   THEN ZeroCoords ELSE coordinates,
                                 geohash |-> nbs[nid].geohash],
                             !.neighborhood = nid,
                             !.isAddressVerified = TRUE]]
        IN
        IF found = 0 /\ slugTaken(neighborhoods, created.slug)
          THEN /\ resp' = Behind(g, Response(400, "Duplicate field value entered for slug"))
               /\ UNCHANGED <<users, neighborhoods>>
        ELSE /\ users' = updated
             /\ neighborhoods' = [nbs EXCEPT ![nid] = updateStats(@, nid, updated, posts)]
             /\ resp' = Behind(g, [Response(200, "Address verified successfully")
                                     EXCEPT !.level = updated[g.user].verificationLevel])
  IN
  /\ req' = Request("verifyAddress", << >>, << >>, auth, "/verify-address")
  /\ IF g.next = 0
       THEN /\ resp' = g
            /\ UNCHANGED <<users, neighborhoods>>
     ELSE IF ~addressValidation(pincode, fullAddress, city, state, coordinates)
       THEN /\ resp' = Behind(g, Response(400, "Validation failed"))
            /\ UNCHANGED <<users, neighborhoods>>
     ELSE handle(NewNeighborhood(pincode, fullAddress, city, state, coordinates))
  /\ UNCHANGED <<nextUserId, posts, listings, attempts, tokens, now, hist,
                 pending, call>>

(* POST /api/neighborhoods/verify-address, behind protect *)
neighborhoodsVerifyAddress(auth, body) ==
  LET pincode == body.pincode
      fullAddress == body.fullAddress
      city == body.city
      state == body.state
      coordinates == body.coordinates
      g == protect(auth, "/verify-address")
      found == findOneByPincode(neighborhoods, pincode)
      \* the rest of the handler, given the document Neighborhood.create builds
      handle(created) ==
        LET nbs == IF found = 0 THEN Append(neighborhoods, created)
                   ELSE neighborhoods
            nid == IF found = 0 THEN Len(neighborhoods) + 1 ELSE found
            updated == [users EXCEPT ![g.user] =
                          [@ EXCEPT
                             !.address =
                                [fullAddress |-> fullAddress, pincode |-> pincode,
                                 city |-> city, state |-> state,
                                 coordinates |-> IF coordinates = NoCoords
                                                   THEN ZeroCoords ELSE coordinates,
                                 geohash |-> nbs[nid].geohash],
                             !.neighborhood = nid,
                             !.isAddressVerified = TRUE]]
        IN
        IF found = 0 /\ slugTaken(neighborhoods, created.slug)
          THEN /\ resp' = Behind(g, Response(400, "Duplicate field value entered for slug"))
               /\ UNCHANGED <<users, neighborhoods>>
        ELSE /\ users' = updated
             /\ neighborhoods' = [nbs EXCEPT ![nid] = updateStats(@, nid, updated, posts)]
             /\ resp' = Behind(g, [Response(200, "Address verified successfully")
                                     EXCEPT !.level = updated[g.user].verificationLevel])
  IN
  /\ req' = Request("neighborhoodsVerifyAddress", << >>, << >>, auth, "/verify-address")
  /\ IF g.next = 0
       THEN /\ resp' = g
            /\ UNCHANGED <<users, neighborhoods>>
     ELSE IF ~neighborhoodsAddressValidation(pincode, fullAddress, city, state, coordinates)
       THEN /\ resp' = Behind(g, Response(400, "Validation failed"))
            /\ UNCHANGED <<users, neighborhoods>>
     ELSE handle(NewNeighborhood(pincode, fullAddress, city, state, coordinates))
  /\ UNCHANGED <<nextUserId, posts, listings, attempts, tokens, now, hist,
                 pending, call>>

(* A public route behind optionalAuth *)
optionalAuthRequest(auth) ==
  /\ req' = Request("optionalAuth", << >>, << >>, auth, "/")
  /\ resp' = optionalAuth(auth)
  /\ UNCHANGED <<users, nextUserId, neighborhoods, posts, listings, attempts, tokens, now, hist,
                 pending, call>>

(* The limiter authRateLimit(maxAttempts, windowMs) returns.  call holds    *)
(* the application that built it; attempts is the Map of its closure.       *)

\* the response of a middleware that called next()
PassedOn == [Response(0, "") EXCEPT !.next = 1]

\* History of the limiter, per identifier: the start of the current window
\* (the time of the first request, or of the first request later than
\* windowMs after the previous start), the requests that reached next() in
\* it, and the windows started so far.
Limited(h, identifier, t, windowMs, passed) ==
  LET n == IF passed THEN 1 ELSE 0
  IN IF identifier \notin DOMAIN h
       THEN h @@ (identifier :> [start |-> t, passed |-> n, windows |-> 1])
     ELSE IF t > h[identifier].start + windowMs
       THEN [h EXCEPT ![identifier] =
               [start |-> t, passed |-> n, windows |-> @.windows + 1]]
     ELSE [h EXCEPT ![identifier].passed = @ + n]

\* a limiter that starts a new window with every request it refuses
authRateLimit_extendOnRefusal(identifier) ==
  LET maxAttempts == call.args[1]
      windowMs == call.args[2]
      has == identifier \in DOMAIN attempts
      record == attempts[identifier]
      fresh == [count |-> 1, resetTime |-> now + windowMs]
      counted == [record EXCEPT !.count = @ + 1]
      refused == has /\ now <= record.resetTime /\ counted.count > maxAttempts
  IN
  /\ call.fn = "authRateLimit"
  /\ has => record.count < maxAttempts + MaxRefused
  /\ req' = [Request("authRateLimit", << >>, << >>, NoAuth, "") EXCEPT !.path = identifier]
  /\ IF ~has
       THEN attempts' = attempts @@ (identifier :> fresh)
     ELSE IF now > record.resetTime
       THEN attempts' = [attempts EXCEPT ![identifier] = fresh]
     ELSE IF refused
       THEN attempts' = [attempts EXCEPT ![identifier] =
                           [counted EXCEPT !.resetTime = now + windowMs]]
     ELSE attempts' = [attempts EXCEPT ![identifier] = counted]
  /\ resp' = IF refused THEN Response(429, "Too many authentication attempts")
             ELSE PassedOn
  /\ hist' = Limited(hist, identifier, now, windowMs, ~refused)
  /\ UNCHANGED <<users, nextUserId, neighborhoods, posts, listings, tokens, now,
                 pending, call>>

\* one request from identifier (req.ip) through the limiter
authRateLimit(identifier) ==
  LET maxAttempts == call.args[1]
      windowMs == call.args[2]
      has == identifier \in DOMAIN attempts
      record == attempts[identifier]
      fresh == [count |-> 1, resetTime |-> now + windowMs]
      counted == [record EXCEPT !.count = @ + 1]
      refused == has /\ now <= record.resetTime /\ counted.count > maxAttempts
  IN
  /\ call.fn = "authRateLimit"
  /\ has => record.count < maxAttempts + MaxRefused
  /\ req' = [Request("authRateLimit", << >>, << >>, NoAuth, "") EXCEPT !.path = identifier]
  /\ IF ~has
       THEN attempts' = attempts @@ (identifier :> fresh)
     ELSE IF now > record.resetTime
       THEN attempts' = [attempts EXCEPT ![identifier] = fresh]
     ELSE attempts' = [attempts EXCEPT ![identifier] = counted]
  /\ resp' = IF refused THEN Response(429, "Too many authentication attempts")
             ELSE PassedOn
  /\ hist' = Limited(hist, identifier, now, windowMs, ~refused)
  /\ UNCHANGED <<users, nextUserId, neighborhoods, posts, listings, tokens, now,
                 pending, call>>

(* Posts and marketplace listings.  posts and listings are the stored       *)
(* documents; a response that carries documents names them by id.           *)

\* requireAddressVerification calls next() for this req.user
requireAddressVerification(user) ==
  user.isAddressVerified /\ user.neighborhood # NoNeighborhood

\* !contentText || !contentText.trim()
IsBlank(s) == Trim(s) = << >>

\* mongoose.Types.ObjectId.isValid, for the references a client can send:
\* the id of a stored or unknown document, or InvalidObjectId for a string
\* that is no ObjectId
ObjectIdIsValid(ref) == ref # InvalidObjectId

\* new Post(postData), with the schema defaults
NewPost(id, author, neighborhood) ==
  [id |-> id, author |-> author, neighborhood |-> neighborhood,
   status |-> "active", likes |-> << >>]

\* Marketplace.create(...), with the schema defaults
NewListing(id, seller, neighborhood, category) ==
  [id |-> id, seller |-> seller, neighborhood |-> neighborhood,
   category |-> category, status |-> "active", isAvailable |-> TRUE,
   views |-> 0, likes |-> << >>]

\* findById
FindById(docs, id) == { d \in docs : d.id = id }

\* isLikedBy
isLikedBy(doc, userId) == \E i \in 1..Len(doc.likes) : doc.likes[i] = userId

\* addLike: the document after the push
addLike(doc, userId) ==
  IF ~isLikedBy(doc, userId) THEN [doc EXCEPT !.likes = Append(@, userId)] ELSE doc

\* removeLike: the document after the filter
removeLike(doc, userId) ==
  [doc EXCEPT !.likes = SelectSeq(@, LAMBDA u : u # userId)]

\* the likeCount virtual
likeCount(doc) == Len(doc.likes)

\* a response that carries the documents with these ids
Listed(r, ids) == r @@ [listings |-> ids]

\* the response of a toggleLike
LikeResponse(r, liked, count) == r @@ [liked |-> liked, likeCount |-> count]

(* POST /api/posts/create, behind protect and requireAddressVerification *)
createPost(auth, body) ==
  LET g == protect(auth, "/create")
      id == Cardinality(posts) + 1
  IN
  /\ Cardinality(posts) < MaxPosts
  /\ req' = Request("createPost", << >>, << >>, auth, "/create")
  /\ IF g.next = 0
       THEN resp' = g /\ UNCHANGED posts
     ELSE IF ~requireAddressVerification(users[g.user])
       THEN /\ resp' = Behind(g, Response(403,
                         "Please verify your address to access neighborhood features"))
            /\ UNCHANGED posts
     ELSE IF IsBlank(body.content)
       THEN /\ resp' = Behind(g, Response(400, "Post content is required"))
            /\ UNCHANGED posts
     ELSE IF body.neighborhood = NoNeighborhood
       THEN /\ resp' = Behind(g, Response(400, "Neighborhood is required"))
            /\ UNCHANGED posts
     ELSE IF ~ObjectIdIsValid(body.neighborhood)
       THEN /\ resp' = Behind(g, Response(400, "Invalid neighborhood ID"))
            /\ UNCHANGED posts
     ELSE /\ posts' = posts \cup {NewPost(id, g.user, body.neighborhood)}
          /\ resp' = Listed(Behind(g, Response(201, "Post created successfully")), {id})
  /\ UNCHANGED <<users, nextUserId, neighborhoods, listings, attempts, tokens, now,
                 hist, pending, call>>

(* PUT /api/posts/:id/like, behind protect and requireAddressVerification *)
toggleLike(auth, id) ==
  LET g == protect(auth, "/like")
      found == FindById(posts, id)
      post == CHOOSE p \in found : TRUE
      isLiked == isLikedBy(post, g.user)
      saved == IF isLiked THEN removeLike(post, g.user) ELSE addLike(post, g.user)
  IN
  /\ req' = Request("toggleLike", << >>, << >>, auth, "/like")
  /\ IF g.next = 0
       THEN resp' = g /\ UNCHANGED posts
     ELSE IF ~requireAddressVerification(users[g.user])
       THEN /\ resp' = Behind(g, Response(403,
                         "Please verify your address to access neighborhood features"))
            /\ UNCHANGED posts
     ELSE IF found = {}
       THEN /\ resp' = Behind(g, Response(404, "Post not found"))
            /\ UNCHANGED posts
     ELSE IF users[g.user].neighborhood = NoNeighborhood
             \/ post.neighborhood # users[g.user].neighborhood
       THEN /\ resp' = Behind(g, Response(403,
                         "You can only interact with posts from your neighborhood"))
            /\ UNCHANGED posts
     ELSE /\ posts' = (posts \ {post}) \cup {saved}
          \* the response is built after the save, from the changed document
          /\ resp' = IF isLiked
                       THEN LikeResponse(Behind(g, Response(200, "Post unliked successfully")),
                                         FALSE, likeCount(saved) - 1)
                     ELSE LikeResponse(Behind(g, Response(200, "Post liked successfully")),
                                       TRUE, likeCount(saved) + 1)
  /\ UNCHANGED <<users, nextUserId, neighborhoods, listings, attempts, tokens, now,
                 hist, pending, call>>

(* POST /api/marketplace/create, behind protect *)
createListing(auth, category) ==
  LET g == protect(auth, "/create")
      id == Cardinality(listings) + 1
  IN
  /\ Cardinality(listings) < MaxListings
  /\ req' = Request("createListing", << >>, << >>, auth, "/create")
  /\ IF g.next = 0
       THEN resp' = g /\ UNCHANGED listings
     ELSE IF users[g.user].neighborhood = NoNeighborhood
       THEN /\ resp' = Behind(g, Response(403,
                         "Please verify your address to create listings"))
            /\ UNCHANGED listings
     ELSE /\ listings' = listings \cup
                 {NewListing(id, g.user, users[g.user].neighborhood, category)}
          /\ resp' = Listed(Behind(g, Response(201, "Listing created successfully")), {id})
  /\ UNCHANGED <<users, nextUserId, neighborhoods, posts, attempts, tokens, now,
                 hist, pending, call>>

\* The queries.  Every listing of the model is newer than seven days and
\* not expired: the specifications with listings keep the clock still.

\* Marketplace.findByNeighborhood, without filters
findByNeighborhood(neighborhoodId) ==
  { l \in listings : l.neighborhood = neighborhoodId /\ l.status = "active"
                     /\ l.isAvailable }

\* Marketplace.findByCategory
findByCategory(category) ==
  { l \in listings : l.category = category /\ l.status = "active" /\ l.isAvailable }

\* Marketplace.findTrending
findTrending(neighborhoodId) ==
  { l \in listings : l.neighborhood = neighborhoodId /\ l.status = "active"
                     /\ l.isAvailable }

\* the three list handlers: refuse a user without neighborhood, else answer
\* with the documents the query found
Browse(op, auth, message, refusal, docs) ==
  LET g == protect(auth, "/listings")
  IN
  /\ req' = Request(op, << >>, << >>, auth, "/listings")
  /\ resp' = IF g.next = 0 THEN g
             ELSE IF users[g.user].neighborhood = NoNeighborhood
               THEN Behind(g, Response(403, refusal))
             ELSE Listed(Behind(g, Response(200, message)),
                         { l.id : l \in docs })
  /\ UNCHANGED <<users, nextUserId, neighborhoods, posts, listings, attempts, tokens,
                 now, hist, pending, call>>

(* GET /api/marketplace/listings *)
getListings(auth) ==
  Browse("getListings", auth, "Listings retrieved successfully",
         "Please verify your address to view listings",
         IF auth.sub \in DOMAIN users
           THEN findByNeighborhood(users[auth.sub].neighborhood) ELSE {})

(* GET /api/marketplace/trending *)
getTrendingListings(auth) ==
  Browse("getTrendingListings", auth, "Trending listings retrieved successfully",
         "Please verify your address to view trending listings",
         IF auth.sub \in DOMAIN users
           THEN findTrending(users[auth.sub].neighborhood) ELSE {})

(* GET /api/marketplace/category/:category *)
getListingsByCategory(auth, category) ==
  Browse("getListingsByCategory", auth, "Category listings retrieved successfully",
         "Please verify your address to view listings",
         findByCategory(category))

(* GET /api/marketplace/:id *)
getListing(auth, id) ==
  LET g == protect(auth, "/listing")
      found == FindById(listings, id)
      listing == CHOOSE l \in found : TRUE
      viewed == [listing EXCEPT !.views = @ + 1]
  IN
  /\ found # {} => listing.views < MaxViews
  /\ req' = Request("getListing", << >>, << >>, auth, "/listing")
  /\ IF g.next = 0
       THEN resp' = g /\ UNCHANGED listings
     ELSE IF found = {}
       THEN /\ resp' = Behind(g, Response(404, "Listing not found"))
            /\ UNCHANGED listings
     ELSE IF users[g.user].neighborhood = NoNeighborhood
             \/ listing.neighborhood # users[g.user].neighborhood
       THEN /\ resp' = Behind(g, Response(403,
                         "You can only view listings from your neighborhood"))
            /\ UNCHANGED listings
     ELSE /\ listings' = (listings \ {listing}) \cup {viewed}
          /\ resp' = Listed(Behind(g, Response(200, "Listing retrieved successfully")), {id})
  /\ UNCHANGED <<users, nextUserId, neighborhoods, posts, attempts, tokens, now,
                 hist, pending, call>>

(* PUT /api/marketplace/:id/like *)
marketplaceToggleLike(auth, id) ==
  LET g == protect(auth, "/like")
      found == FindById(listings, id)
      listing == CHOOSE l \in found : TRUE
      isLiked == isLikedBy(listing, g.user)
      saved == IF isLiked THEN removeLike(listing, g.user) ELSE addLike(listing, g.user)
  IN
  /\ req' = Request("marketplaceToggleLike", << >>, << >>, auth, "/like")
  /\ IF g.next = 0
       THEN resp' = g /\ UNCHANGED listings
     ELSE IF found = {}
       THEN /\ resp' = Behind(g, Response(404, "Listing not found"))
            /\ UNCHANGED listings
     ELSE IF users[g.user].neighborhood = NoNeighborhood
             \/ listing.neighborhood # users[g.user].neighborhood
       THEN /\ resp' = Behind(g, Response(403,
                         "You can only interact with listings from your neighborhood"))
            /\ UNCHANGED listings
     ELSE /\ listings' = (listings \ {listing}) \cup {saved}
          \* the response is built after the save, from the changed document
          /\ resp' = IF isLiked
                       THEN LikeResponse(Behind(g, Response(200, "Listing unliked successfully")),
                                         FALSE, Len(saved.likes) - 1)
                     ELSE LikeResponse(Behind(g, Response(200, "Listing liked successfully")),
                                       TRUE, Len(saved.likes) + 1)
  /\ UNCHANGED <<users, nextUserId, neighborhoods, posts, attempts, tokens, now,
                 hist, pending, call>>

(* validateToken *)

\* the value of a path that a query did not load
Undefined == "undefined"

\* .select('phone name isPhoneVerified isAddressVerified role')
validateTokenSelect == {"phone", "name", "isPhoneVerified", "isAddressVerified", "role"}

\* the document of an inclusive select: the selected paths only
Select(user, fields) == [f \in fields |-> user[f]]

\* reading a path of a loaded document
Get(doc, path) == IF path \in DOMAIN doc THEN doc[path] ELSE Undefined

\* the response of validateToken for a user it accepts
Validated(r, id, user) ==
  r @@ [valid |-> TRUE,
        body |-> [id |-> id, phone |-> Get(user, "phone"), name |-> Get(user, "name"),
                  isPhoneVerified |-> Get(user, "isPhoneVerified"),
                  isAddressVerified |-> Get(user, "isAddressVerified"),
                  role |-> Get(user, "role")]]

(* validateToken, on its own: it takes the token from the header *)
validateToken(auth) ==
  LET user == Select(users[auth.sub], validateTokenSelect)
  IN
  /\ req' = Request("validateToken", << >>, << >>, auth, "/validate")
  /\ resp' = IF auth.kind = "none"
               THEN Response(401, "No token provided")
             ELSE IF ~jwtVerify(auth)
               THEN Response(401, "Invalid token")
             ELSE IF auth.sub \notin DOMAIN users \/ Get(user, "status") # "active"
               THEN Response(401, "Invalid token")
             ELSE Validated(Response(200, ""), auth.sub, user)
  /\ UNCHANGED <<users, nextUserId, neighborhoods, posts, listings, attempts, tokens,
                 now, hist, pending, call>>

(* The clock *)
Tick(d) ==
  /\ now + d <= MaxTime
  /\ now' = now + d
  /\ UNCHANGED <<users, nextUserId, neighborhoods, posts, listings, attempts, tokens, hist, req, resp,
                 pending, call>>

(* An operator sets the status field of a stored user *)
AdminSetStatus(id, s) ==
  /\ id \in DOMAIN users
  /\ users[id].status # s
  /\ users' = [users EXCEPT ![id].status = s]
  /\ UNCHANGED <<nextUserId, neighborhoods, posts, listings, attempts, tokens, now, hist, req, resp,
                 pending, call>>

(* An operator removes a stored user *)
AdminRemoveUser(id) ==
  /\ id \in DOMAIN users
  /\ users' = [i \in DOMAIN users \ {id} |-> users[i]]
  /\ UNCHANGED <<nextUserId, neighborhoods, posts, listings, attempts, tokens, now, hist, req, resp,
                 pending, call>>

----------------------------------------------------------------------------
(* Inputs *)

Phone1 == <<9, 8, 7, 6, 5, 4, 3, 2, 1, 0>>
Phone2 == <<6, 0, 0, 0, 0, 0, 0, 0, 0, 1>>
BadPhone == <<5, 8, 7, 6, 5, 4, 3, 2, 1, 0>>

PhoneInputs == {Phone1, BadPhone}

OtpInputs == { randomOtp(k) : k \in RandSamples } \cup { <<1, 2, 3, 4, 5>> }

TickSteps == {OtpValidityMs, OtpValidityMs + 1}

Statuses == {"active", "suspended", "deleted"}

\* credentials of a client that keeps its session: none, or a token the
\* server issued that is still within its validity window
SessionAuthInputs ==
  {NoAuth} \cup { [kind |-> "valid", sub |-> i] : i \in tokens }

\* credentials a client can present: those, a token past its expiry, or one
\* with a bad signature
AuthInputs ==
  SessionAuthInputs \cup { [kind |-> "expired", sub |-> i] : i \in tokens }
                    \cup { [kind |-> "invalid", sub |-> 1] }

NameInputs == {<<"A", "s", "h", "a">>, <<"A">>}

Pincode1 == <<5, 6, 0, 0, 0, 1>>
Pincode2 == <<4, 1, 1, 0, 0, 1>>
FullAddress1 == <<"1", "2", " ", "M", "G", " ", "R", "o", "a", "d">>
City1 == <<"P", "u", "n", "e">>
State1 == <<"M", "H">>
Coords1 == <<3400427, 20340957>>

AddressBody(pincode, fullAddress, city, state, coordinates) ==
  [pincode |-> pincode, fullAddress |-> fullAddress, city |-> city,
   state |-> state, coordinates |-> coordinates]

\* request bodies of verify-address: two valid ones, one without fullAddress,
\* one with a one-letter city
AddressInputs ==
  { AddressBody(Pincode1, FullAddress1, City1, State1, Coords1),
    AddressBody(Pincode2, FullAddress1, City1, State1, NoCoords),
    AddressBody(Pincode1, << >>, City1, State1, NoCoords),
    AddressBody(Pincode1, FullAddress1, <<"X">>, State1, NoCoords) }

----------------------------------------------------------------------------
(* The request-level specification: every handler, called by clients that  *)
(* present no token or an unexpired one; no clock                           *)

Next ==
  \/ \E p \in PhoneInputs : register(p, NoName, 0)
  \/ \E p \in PhoneInputs : login(p, 0)
  \/ \E p \in PhoneInputs, o \in OtpInputs : verifyOTP(p, o)
  \/ \E p \in PhoneInputs : resendOTP(p, 0)
  \/ \E a \in SessionAuthInputs : getMe(a)
  \/ \E a \in SessionAuthInputs, n \in NameInputs : updateProfile(a, n)
  \/ \E a \in SessionAuthInputs, b \in AddressInputs : verifyAddress(a, b)
  \/ \E a \in SessionAuthInputs, b \in AddressInputs :
        neighborhoodsVerifyAddress(a, b)
  \/ \E i \in UserIds, s \in Statuses : AdminSetStatus(i, s)
  \/ \E i \in UserIds : AdminRemoveUser(i)

Spec == Init /\ [][Next]_vars

(* The OTP specification: the challenge life cycle against the clock *)

NextOtp ==
  \/ \E p \in PhoneInputs, k \in RandSamples : register(p, NoName, k)
  \/ \E p \in PhoneInputs, k \in RandSamples : login(p, k)
  \/ \E p \in PhoneInputs, o \in OtpInputs : verifyOTP(p, o)
  \/ \E p \in PhoneInputs, k \in RandSamples : resendOTP(p, k)
  \/ \E d \in TickSteps : Tick(d)

SpecOtp == InitOtp /\ [][NextOtp]_vars

(* The guard specification: the middleware applied to every stored user    *)
(* state the schema admits, with a token issued to each user                *)

GuardIds == {1, 2}
GuardPhones == <<Phone1, Phone2>>

GuardUser(phone, status, verified) ==
  preSave([NewUser(phone) EXCEPT !.status = status, !.isPhoneVerified = verified])

InitGuard ==
  /\ \E present \in SUBSET GuardIds :
       \E st \in [present -> Statuses], pv \in [present -> BOOLEAN] :
         users = [i \in present |-> GuardUser(GuardPhones[i], st[i], pv[i])]
  /\ nextUserId = 3
  /\ neighborhoods = << >>
  /\ posts = {}
  /\ listings = {}
  /\ attempts = << >>
  /\ tokens = GuardIds
  /\ now = 0
  /\ hist = << >>
  /\ req = Request("init", << >>, << >>, NoAuth, "")
  /\ resp = Response(0, "")
  /\ pending = << >>
  /\ call = NoCall

NextGuard ==
  \/ \E a \in AuthInputs : getMe(a)
  \/ \E a \in AuthInputs, n \in NameInputs : updateProfile(a, n)
  \/ \E a \in AuthInputs : optionalAuthRequest(a)
  \/ \E i \in GuardIds, s \in Statuses : AdminSetStatus(i, s)
  \/ \E i \in GuardIds : AdminRemoveUser(i)

SpecGuard == InitGuard /\ [][NextGuard]_vars

(* The neighborhood specification: two active, phone-verified users verify *)
(* their addresses, one request after another                               *)

FullAddress2 == <<"7", " ", "L", "a", "k", "e", " ", "V", "i", "e", "w">>
City2 == <<"P", "i", "m", "p", "r", "i">>
Coords2 == <<4859494, 19354419>>

\* two bodies for one pincode that differ in address, city and coordinates,
\* and one for another pincode
NbhdInputs ==
  { AddressBody(Pincode1, FullAddress1, City1, State1, Coords1),
    AddressBody(Pincode1, FullAddress2, City2, State1, Coords2),
    AddressBody(Pincode2, FullAddress1, City1, State1, NoCoords) }

NbhdAuthInputs == { [kind |-> "valid", sub |-> i] : i \in GuardIds }

InitNbhd ==
  /\ users = [i \in GuardIds |-> GuardUser(GuardPhones[i], "active", TRUE)]
  /\ nextUserId = 3
  /\ neighborhoods = << >>
  /\ posts = {}
  /\ listings = {}
  /\ attempts = << >>
  /\ tokens = GuardIds
  /\ now = 0
  /\ hist = << >>
  /\ req = Request("init", << >>, << >>, NoAuth, "")
  /\ resp = Response(0, "")
  /\ pending = << >>
  /\ call = NoCall

NextNbhd ==
  \/ \E a \in NbhdAuthInputs, b \in NbhdInputs : verifyAddress(a, b)
  \/ \E a \in NbhdAuthInputs, b \in NbhdInputs : neighborhoodsVerifyAddress(a, b)

SpecNbhd == InitNbhd /\ [][NextNbhd]_vars

----------------------------------------------------------------------------
(* Requests in flight.  A handler runs up to its next await in one step;    *)
(* pending holds, for each request received, the handler's position (pc),   *)
(* its local variables and, once pc is "done", the response it sent.        *)

InFlight(op, pc) ==
  [op |-> op, pc |-> pc, phone |-> << >>, k |-> 0, user |-> 0, body |-> << >>,
   found |-> 0, created |-> << >>, resp |-> Response(0, "")]

Done(p, r) == [p EXCEPT !.pc = "done", !.resp = r]

At(r, op, pc) == r \in DOMAIN pending /\ pending[r].op = op /\ pending[r].pc = pc

(* register: validationResult and the destructuring of req.body *)
registerReceive(phone, name, k) ==
  /\ Len(pending) < MaxRequests
  /\ pending' = Append(pending,
       IF ~PhoneRegex(phone) \/ ~nameValidation(name)
         THEN Done(InFlight("register", "done"), Response(400, "Validation failed"))
         ELSE [InFlight("register", "findOne") EXCEPT !.phone = phone, !.k = k])
  /\ UNCHANGED <<users, nextUserId, neighborhoods, posts, listings, attempts, tokens, now, hist,
                 req, resp, call>>

(* register: await User.findOne({ phone }) and the check of its result *)
registerFindOne(r) ==
  /\ At(r, "register", "findOne")
  /\ pending' = [pending EXCEPT ![r] =
       IF findOneByPhone(@.phone) # 0
         THEN Done(@, Response(400, "User already exists with this phone number"))
         ELSE [@ EXCEPT !.pc = "create"]]
  /\ UNCHANGED <<users, nextUserId, neighborhoods, posts, listings, attempts, tokens, now, hist,
                 req, resp, call>>

(* register: await User.create, without the unique index on phone *)
registerCreate_noIndex(r) ==
  LET p == pending[r] IN
  /\ At(r, "register", "create")
  /\ users' = (nextUserId :> preSave(
         [NewUser(p.phone) EXCEPT
            !.name = <<"U", "s", "e", "r">> \o DigitsToChars(SubSeq(p.phone, 7, 10)),
            !.otp = [code |-> randomOtp(p.k), expiresAt |-> now + OtpValidityMs,
                     attempts |-> 0]])) @@ users
  /\ nextUserId' = nextUserId + 1
  /\ pending' = [pending EXCEPT ![r] = Done([@ EXCEPT !.user = nextUserId],
         [Response(201, "Registration successful. Please verify your phone number.")
            EXCEPT !.otp = randomOtp(p.k)])]
  /\ UNCHANGED <<neighborhoods, posts, listings, attempts, tokens, now, hist, req, resp, call>>

(* register: await User.create under the unique index on phone, a duplicate *)
(* key error going to errorHandler; then the response                        *)
registerCreate(r) ==
  LET p == pending[r] IN
  /\ At(r, "register", "create")
  /\ IF findOneByPhone(p.phone) # 0
       THEN /\ pending' = [pending EXCEPT ![r] =
                 Done(@, Response(400, "Duplicate field value entered for phone"))]
            /\ UNCHANGED <<users, nextUserId>>
     ELSE /\ users' = (nextUserId :> preSave(
                 [NewUser(p.phone) EXCEPT
                    !.name = <<"U", "s", "e", "r">> \o
                             DigitsToChars(SubSeq(p.phone, 7, 10)),
                    !.otp = [code |-> randomOtp(p.k),
                             expiresAt |-> now + OtpValidityMs,
                             attempts |-> 0]])) @@ users
          /\ nextUserId' = nextUserId + 1
          /\ pending' = [pending EXCEPT ![r] = Done([@ EXCEPT !.user = nextUserId],
                 [Response(201, "Registration successful. Please verify your phone number.")
                    EXCEPT !.otp = randomOtp(p.k)])]
  /\ UNCHANGED <<neighborhoods, posts, listings, attempts, tokens, now, hist, req, resp, call>>

(* verifyAddress: protect, validationResult and the destructuring of req.body *)
verifyAddressReceive(auth, body) ==
  LET g == protect(auth, "/verify-address") IN
  /\ Len(pending) < MaxRequests
  /\ pending' = Append(pending,
       IF g.next = 0 THEN Done(InFlight("verifyAddress", "done"), g)
       ELSE IF ~addressValidation(body.pincode, body.fullAddress, body.city,
                                  body.state, body.coordinates)
         THEN Done(InFlight("verifyAddress", "done"),
                   Behind(g, Response(400, "Validation failed")))
       ELSE [InFlight("verifyAddress", "findOne") EXCEPT
               !.user = g.user, !.body = body, !.resp = g])
  /\ UNCHANGED <<users, nextUserId, neighborhoods, posts, listings, attempts, tokens, now, hist,
                 req, resp, call>>

(* verifyAddress: await Neighborhood.findOne by pincode; the document found *)
(* is the handler's own copy                                                 *)
verifyAddressFindOne(r) ==
  /\ At(r, "verifyAddress", "findOne")
  /\ pending' = [pending EXCEPT ![r] =
       LET found == findOneByPincode(neighborhoods, @.body.pincode) IN
       IF found = 0 THEN [@ EXCEPT !.pc = "create"]
       ELSE [@ EXCEPT !.pc = "update", !.found = found,
                      !.created = neighborhoods[found]]]
  /\ UNCHANGED <<users, nextUserId, neighborhoods, posts, listings, attempts, tokens, now, hist,
                 req, resp, call>>

(* a create that looks the pincode up again and takes the record another    *)
(* request stored in between                                                 *)
verifyAddressCreate_reuse(r) ==
  LET p == pending[r]
      b == p.body
      again == findOneByPincode(neighborhoods, b.pincode)
      handle(created) ==
        IF again # 0
          THEN /\ pending' = [pending EXCEPT ![r] =
                    [@ EXCEPT !.pc = "update", !.found = again,
                              !.created = neighborhoods[again]]]
               /\ UNCHANGED neighborhoods
        ELSE /\ neighborhoods' = Append(neighborhoods, created)
             /\ pending' = [pending EXCEPT ![r] =
                    [@ EXCEPT !.pc = "update", !.found = Len(neighborhoods) + 1,
                              !.created = created]]
  IN
  /\ At(r, "verifyAddress", "create")
  /\ handle(NewNeighborhood(b.pincode, b.fullAddress, b.city, b.state, b.coordinates))
  /\ UNCHANGED <<users, nextUserId, posts, listings, attempts, tokens, now, hist, req, resp, call>>

(* verifyAddress: await Neighborhood.create, a duplicate slug going to      *)
(* errorHandler                                                              *)
verifyAddressCreate(r) ==
  LET p == pending[r]
      b == p.body
      handle(created) ==
        IF slugTaken(neighborhoods, created.slug)
          THEN /\ pending' = [pending EXCEPT ![r] = Done(@,
                    Behind(@.resp, Response(400, "Duplicate field value entered for slug")))]
               /\ UNCHANGED neighborhoods
        ELSE /\ neighborhoods' = Append(neighborhoods, created)
             /\ pending' = [pending EXCEPT ![r] =
                    [@ EXCEPT !.pc = "update", !.found = Len(neighborhoods) + 1,
                              !.created = created]]
  IN
  /\ At(r, "verifyAddress", "create")
  /\ handle(NewNeighborhood(b.pincode, b.fullAddress, b.city, b.state, b.coordinates))
  /\ UNCHANGED <<users, nextUserId, posts, listings, attempts, tokens, now, hist, req, resp, call>>

(* verifyAddress: await User.findByIdAndUpdate *)
verifyAddressUpdateUser(r) ==
  LET p == pending[r]
      b == p.body
  IN
  /\ At(r, "verifyAddress", "update")
  /\ p.user \in DOMAIN users
  /\ users' = [users EXCEPT ![p.user] =
       [@ EXCEPT
          !.address = [fullAddress |-> b.fullAddress, pincode |-> b.pincode,
                       city |-> b.city, state |-> b.state,
                       coordinates |-> IF b.coordinates = NoCoords
                                         THEN ZeroCoords ELSE b.coordinates,
                       geohash |-> p.created.geohash],
          !.neighborhood = p.found,
          !.isAddressVerified = TRUE]]
  /\ pending' = [pending EXCEPT ![r] =
       [p EXCEPT !.pc = "count",
                 !.resp.level = users'[p.user].verificationLevel]]
  /\ UNCHANGED <<nextUserId, neighborhoods, posts, listings, attempts, tokens, now, hist, req, resp,
                 call>>

(* verifyAddress: updateStats up to its save: the counts, read in one step, *)
(* go into the handler's copy of the document                                *)
verifyAddressCount(r) ==
  LET p == pending[r] IN
  /\ At(r, "verifyAddress", "count")
  /\ pending' = [pending EXCEPT ![r] =
       [p EXCEPT !.pc = "save",
                 !.created = updateStats(p.created, p.found, users, posts)]]
  /\ UNCHANGED <<users, nextUserId, neighborhoods, posts, listings, attempts, tokens, now, hist,
                 req, resp, call>>

(* verifyAddress: the save of updateStats, which writes the modified stats, *)
(* and the response                                                          *)
verifyAddressSave(r) ==
  LET p == pending[r] IN
  /\ At(r, "verifyAddress", "save")
  /\ neighborhoods' = [neighborhoods EXCEPT ![p.found].stats = p.created.stats]
  /\ pending' = [pending EXCEPT ![r] = Done(@,
       [@.resp EXCEPT !.status = 200, !.message = "Address verified successfully"])]
  /\ UNCHANGED <<users, nextUserId, posts, listings, attempts, tokens, now, hist, req, resp, call>>

\* new this(neighborhoodData) as save validates it
NeighborhoodFromData(d) ==
  preValidate([name |-> Trim(d.name), slug |-> << >>, full |-> d.full,
               pincode |-> d.pincode, city |-> d.city, state |-> d.state,
               coordinates |-> d.coordinates, geohash |-> << >>,
               stats |-> NoStats])

(* Neighborhood.createNeighborhood: await this.findOne by pincode and name, *)
(* and the throw when a document is found                                    *)
createNeighborhoodFindOne(d) ==
  /\ Len(pending) < MaxRequests
  /\ pending' = Append(pending,
       IF \E i \in DOMAIN neighborhoods :
            neighborhoods[i].pincode = d.pincode /\ neighborhoods[i].name = d.name
         THEN Done(InFlight("createNeighborhood", "done"),
                   Response(500, "Neighborhood already exists"))
         ELSE [InFlight("createNeighborhood", "save") EXCEPT !.body = d])
  /\ UNCHANGED <<users, nextUserId, neighborhoods, posts, listings, attempts, tokens, now, hist,
                 req, resp, call>>

(* Neighborhood.createNeighborhood: neighborhood.save() *)
createNeighborhoodSave(r) ==
  LET handle(created) ==
        IF slugTaken(neighborhoods, created.slug)
          THEN /\ pending' = [pending EXCEPT ![r] = Done(@,
                    Response(400, "Duplicate field value entered for slug"))]
               /\ UNCHANGED neighborhoods
        ELSE /\ neighborhoods' = Append(neighborhoods, created)
             /\ pending' = [pending EXCEPT ![r] = Done(
                    [@ EXCEPT !.found = Len(neighborhoods) + 1, !.created = created],
                    Response(201, ""))]
  IN
  /\ At(r, "createNeighborhood", "save")
  /\ handle(NeighborhoodFromData(pending[r].body))
  /\ UNCHANGED <<users, nextUserId, posts, listings, attempts, tokens, now, hist, req, resp, call>>

RequestIds == 1..MaxRequests

RacePhoneInputs == {Phone1, Phone2, BadPhone}

(* The registration race: register requests whose steps interleave *)

NextRegister ==
  \/ \E p \in RacePhoneInputs, k \in RandSamples : registerReceive(p, NoName, k)
  \/ \E r \in RequestIds : registerFindOne(r)
  \/ \E r \in RequestIds : registerCreate(r)

SpecRegister == Init /\ [][NextRegister]_vars

(* The creation race: address verifications and createNeighborhood calls   *)
(* whose steps interleave                                                   *)

\* the name verifyAddress gives the neighborhood of City1 and Pincode1
Name1 == City1 \o <<" ", "-", " ">> \o DigitsToChars(Pincode1)

NeighborhoodData(name, pincode, fullAddress, city, state, coordinates) ==
  [name |-> name, pincode |-> pincode, full |-> fullAddress, city |-> city,
   state |-> state, coordinates |-> coordinates]

\* data with the name and pincode a verification creates, and data with
\* another name for that pincode
DataInputs ==
  { NeighborhoodData(Name1, Pincode1, FullAddress2, City1, State1, Coords2),
    NeighborhoodData(City2, Pincode1, FullAddress1, City2, State1, Coords1) }

CreateInputs ==
  { AddressBody(Pincode1, FullAddress1, City1, State1, Coords1),
    AddressBody(Pincode1, FullAddress2, City2, State1, Coords2) }

NextCreate ==
  \/ \E a \in NbhdAuthInputs, b \in CreateInputs : verifyAddressReceive(a, b)
  \/ \E r \in RequestIds : verifyAddressFindOne(r)
  \/ \E r \in RequestIds : verifyAddressCreate(r)
  \/ \E r \in RequestIds : verifyAddressUpdateUser(r)
  \/ \E r \in RequestIds : verifyAddressCount(r)
  \/ \E r \in RequestIds : verifyAddressSave(r)
  \/ \E d \in DataInputs : createNeighborhoodFindOne(d)
  \/ \E r \in RequestIds : createNeighborhoodSave(r)

SpecCreate == InitNbhd /\ [][NextCreate]_vars

(* Address verifications in flight alone (SpecFindOrCreate) *)
NextFindOrCreate ==
  \/ \E a \in NbhdAuthInputs, b \in CreateInputs : verifyAddressReceive(a, b)
  \/ \E r \in RequestIds : verifyAddressFindOne(r)
  \/ \E r \in RequestIds : verifyAddressCreate(r)
  \/ \E r \in RequestIds : verifyAddressUpdateUser(r)
  \/ \E r \in RequestIds : verifyAddressCount(r)
  \/ \E r \in RequestIds : verifyAddressSave(r)

SpecFindOrCreate == InitNbhd /\ [][NextFindOrCreate]_vars

----------------------------------------------------------------------------
(* The statistics of a neighborhood (SpecStats): GET /:id/stats over stored *)
(* users, posts and neighborhoods of every kind the schemas admit           *)

\* postSchema.status
PostStatuses == {"active", "hidden", "deleted", "reported"}

\* a stored post, as far as the counts read it
Post(id, neighborhood, status) ==
  [id |-> id, neighborhood |-> neighborhood, status |-> status]

PostInputs == {Post(1, 1, "active"), Post(2, 1, "deleted")}

\* a stored user that was linked to a neighborhood
Resident(i, status, phoneVerified, addressVerified, neighborhood) ==
  [GuardUser(GuardPhones[i], status, phoneVerified)
     EXCEPT !.isAddressVerified = addressVerified, !.neighborhood = neighborhood]

Neighborhood1 == NewNeighborhood(Pincode1, FullAddress1, City1, State1, Coords1)
Neighborhood2 == NewNeighborhood(Pincode2, FullAddress1, City1, State1, NoCoords)

\* the ids a client asks statistics for: the stored ones and an unknown one
StatsIds == {1, 2, 3}

\* the neighborhoods users are linked to: the first user to the first one
Linked == [GuardIds -> {1, 2}]

InitStats ==
  /\ \E st \in [GuardIds -> Statuses], pv \in [GuardIds -> BOOLEAN],
        av \in [GuardIds -> BOOLEAN],
        nb \in { f \in Linked : f[1] = 1 } :
       users = [i \in GuardIds |-> Resident(i, st[i], pv[i], av[i], nb[i])]
  /\ nextUserId = 3
  /\ neighborhoods =
       << [Neighborhood1 EXCEPT !.stats.activeEvents = 1,
                                !.stats.marketplaceListings = 2],
          Neighborhood2 >>
  /\ posts \in SUBSET PostInputs
  /\ listings = {}
  /\ attempts = << >>
  /\ tokens = GuardIds
  /\ now = 0
  /\ hist = << >>
  /\ req = Request("init", << >>, << >>, NoAuth, "")
  /\ resp = Response(0, "")
  /\ pending = << >>
  /\ call = NoCall

\* GET /api/neighborhoods/:id/stats
getNeighborhoodStats(auth, id) ==
  LET g == protect(auth, "/:id/stats") IN
  /\ req' = Request("getNeighborhoodStats", << >>, << >>, auth, "/:id/stats")
  /\ IF g.next = 0
       THEN /\ resp' = g
            /\ UNCHANGED neighborhoods
     ELSE IF id \notin DOMAIN neighborhoods
       THEN /\ resp' = Behind(g, Response(404, "Neighborhood not found"))
            /\ UNCHANGED neighborhoods
     ELSE /\ neighborhoods' =
               [neighborhoods EXCEPT ![id] = updateStats(@, id, users, posts)]
          /\ resp' = Behind(g, Response(200,
                        "Neighborhood statistics retrieved successfully"))
  /\ UNCHANGED <<users, nextUserId, posts, listings, attempts, tokens, now, hist, pending, call>>

NextStats ==
  \E a \in NbhdAuthInputs, id \in StatsIds : getNeighborhoodStats(a, id)

SpecStats == InitStats /\ [][NextStats]_vars

----------------------------------------------------------------------------
(* Applications of generateGeohash (SpecGeohash): one application per      *)
(* behaviour, kept in call                                                 *)

LatInputs == {-90 * CoordScale, -1, 0, Coords1[1], Coords1[1] + 1, 90 * CoordScale}
LngInputs == {-180 * CoordScale, -1, 0, Coords1[2], Coords1[2] + 1, 180 * CoordScale}

\* points of which some share their cell at GeohashPrecision
PointInputs ==
  {ZeroCoords, Coords1, <<Coords1[1] + 1, Coords1[2] + 1>>, <<-1, -1>>}

Precisions == 1..MaxPrecision

InitGeohash ==
  /\ users = << >>
  /\ nextUserId = 1
  /\ neighborhoods = << >>
  /\ posts = {}
  /\ listings = {}
  /\ attempts = << >>
  /\ tokens = {}
  /\ now = 0
  /\ hist = << >>
  /\ req = Request("init", << >>, << >>, NoAuth, "")
  /\ resp = Response(0, "")
  /\ pending = << >>
  /\ call = NoCall

\* generateGeohash(lat, lng, precision)
generateGeohashCall(lat, lng, precision) ==
  /\ call = NoCall
  /\ call' = [fn |-> "generateGeohash", args |-> <<lat, lng, precision>>,
              result |-> generateGeohash(lat, lng, precision)]
  /\ UNCHANGED <<users, nextUserId, neighborhoods, posts, listings, attempts, tokens, now, hist,
                 req, resp, pending>>

\* the geohashes of one point at two precisions
generateGeohashTwice(lat, lng, p, q) ==
  /\ call = NoCall
  /\ call' = [fn |-> "generateGeohashTwice", args |-> <<lat, lng, p, q>>,
              result |-> <<generateGeohash(lat, lng, p),
                           generateGeohash(lat, lng, q)>>]
  /\ UNCHANGED <<users, nextUserId, neighborhoods, posts, listings, attempts, tokens, now, hist,
                 req, resp, pending>>

\* the geohashes of two points at GeohashPrecision and at a lower precision
generateGeohashPair(a, b, p) ==
  /\ call = NoCall
  /\ call' = [fn |-> "generateGeohashPair", args |-> <<a, b, p>>,
              result |-> <<generateGeohash(a[1], a[2], GeohashPrecision),
                           generateGeohash(b[1], b[2], GeohashPrecision),
                           generateGeohash(a[1], a[2], p),
                           generateGeohash(b[1], b[2], p)>>]
  /\ UNCHANGED <<users, nextUserId, neighborhoods, posts, listings, attempts, tokens, now, hist,
                 req, resp, pending>>

NextGeohash ==
  \/ \E lat \in LatInputs, lng \in LngInputs, p \in Precisions :
       generateGeohashCall(lat, lng, p)
  \/ \E lat \in LatInputs, lng \in LngInputs, p \in Precisions, q \in Precisions :
       generateGeohashTwice(lat, lng, p, q)
  \/ \E a \in PointInputs, b \in PointInputs, p \in 1..GeohashPrecision :
       generateGeohashPair(a, b, p)

SpecGeohash == InitGeohash /\ [][NextGeohash]_vars

----------------------------------------------------------------------------
(* The slug of a new neighborhood (SpecSlug): one document is validated per *)
(* behaviour, kept in call                                                  *)

NameChars == {"A", "b", "5", " ", "-", "!"}

ExampleName ==
  <<"K", "o", "r", "a", "m", "a", "n", "g", "a", "l", "a", " ",
    "5", "t", "h", " ", "B", "l", "o", "c", "k", "!", "!">>

\* names of up to MaxNameLen characters, and the name of the example
NeighborhoodNames ==
  UNION { [1..n -> NameChars] : n \in 1..MaxNameLen } \cup {ExampleName}

\* validation of a new document with the given name
validateNew(name) ==
  /\ call = NoCall
  /\ call' = [fn |-> "validateNew", args |-> <<name>>,
              result |-> NeighborhoodFromData(
                           NeighborhoodData(name, Pincode1, FullAddress1, City1,
                                            State1, Coords1)).slug]
  /\ UNCHANGED <<users, nextUserId, neighborhoods, posts, listings, attempts, tokens, now, hist,
                 req, resp, pending>>

NextSlug == \E name \in NeighborhoodNames : validateNew(name)

SpecSlug == InitGeohash /\ [][NextSlug]_vars

----------------------------------------------------------------------------
(* The phone flag (SpecPhone): the handlers that write a user, by clients   *)
(* that keep their session, with the clock                                  *)

NextPhone ==
  \/ \E p \in PhoneInputs : register(p, NoName, 0)
  \/ \E p \in PhoneInputs : login(p, 0)
  \/ \E p \in PhoneInputs, o \in OtpInputs : verifyOTP(p, o)
  \/ \E p \in PhoneInputs : resendOTP(p, 0)
  \/ \E a \in SessionAuthInputs : updateProfile(a, <<"A", "s", "h", "a">>)
  \/ \E a \in SessionAuthInputs :
       verifyAddress(a, AddressBody(Pincode1, FullAddress1, City1, State1, Coords1))
  \/ \E d \in TickSteps : Tick(d)

SpecPhone == InitOtp /\ [][NextPhone]_vars

----------------------------------------------------------------------------
(* verify-otp requests in flight (SpecVerify) *)

(* verify-otp: validationResult and the destructuring of req.body *)
verifyOTPReceive(phone, otp) ==
  /\ Len(pending) < MaxVerifyRequests
  /\ pending' = Append(pending,
       IF ~PhoneRegex(phone) \/ ~otpValidation(otp)
         THEN Done(InFlight("verifyOTP", "done"), Response(400, "Validation failed"))
         ELSE [InFlight("verifyOTP", "findOne") EXCEPT !.phone = phone, !.body = otp])
  /\ UNCHANGED <<users, nextUserId, neighborhoods, posts, listings, attempts, tokens, now, hist,
                 req, resp, call>>

(* verify-otp: await User.findOne({ phone }), and user.verifyOTP(otp) on    *)
(* the document it returned; found keeps the counter that document held     *)
verifyOTPFindOne(r) ==
  LET p == IF r \in DOMAIN pending THEN pending[r] ELSE InFlight("", "")
      id == findOneByPhone(p.phone)
  IN
  /\ At(r, "verifyOTP", "findOne")
  /\ IF id = 0
       THEN /\ pending' = [pending EXCEPT ![r] =
                             Done(p, Response(404, "User not found"))]
            /\ UNCHANGED hist
       ELSE LET otpResult == User_verifyOTP(users[id], p.body, now) IN
            /\ pending' = [pending EXCEPT ![r] =
                 [p EXCEPT !.pc = "save", !.user = id,
                           !.found = users[id].otp.attempts,
                           !.created = otpResult]]
            /\ hist' = Verified(hist, id, users[id], p.body, otpResult)
  /\ UNCHANGED <<users, nextUserId, neighborhoods, posts, listings, attempts, tokens, now,
                 req, resp, call>>

(* a save that increments the stored counter in the database *)
verifyOTPSave_atomicIncrement(r) ==
  LET p == IF r \in DOMAIN pending THEN pending[r] ELSE InFlight("", "")
      otpResult == p.created
  IN
  /\ At(r, "verifyOTP", "save")
  /\ IF otpResult.message = "Invalid OTP"
       THEN /\ users' = [users EXCEPT ![p.user].otp.attempts = @ + 1]
            /\ UNCHANGED tokens
            /\ pending' = [pending EXCEPT ![r] = Done(p, Response(400, otpResult.message))]
     ELSE IF ~otpResult.valid
       THEN /\ UNCHANGED <<users, tokens>>
            /\ pending' = [pending EXCEPT ![r] = Done(p, Response(400, otpResult.message))]
     ELSE /\ users' = [users EXCEPT ![p.user] =
                 [@ EXCEPT !.isPhoneVerified = TRUE, !.otp = ClearedOtp,
                           !.verificationLevel =
                              preSave(otpResult.user).verificationLevel]]
          /\ tokens' = tokens \cup {p.user}
          /\ pending' = [pending EXCEPT ![r] =
               Done(p, [Response(200, "Phone number verified successfully")
                          EXCEPT !.token = p.user,
                                 !.level = preSave(otpResult.user).verificationLevel])]
  /\ UNCHANGED <<nextUserId, neighborhoods, posts, listings, attempts, now, hist, req, resp, call>>

(* verify-otp: await user.save(), which writes the paths the request        *)
(* modified on its document, and the response                               *)
verifyOTPSave(r) ==
  LET p == IF r \in DOMAIN pending THEN pending[r] ELSE InFlight("", "")
      otpResult == p.created
  IN
  /\ At(r, "verifyOTP", "save")
  /\ IF otpResult.message = "Invalid OTP"
       THEN /\ users' = [users EXCEPT ![p.user].otp.attempts =
                           otpResult.user.otp.attempts]
            /\ UNCHANGED tokens
            /\ pending' = [pending EXCEPT ![r] = Done(p, Response(400, otpResult.message))]
     ELSE IF ~otpResult.valid
       THEN /\ UNCHANGED <<users, tokens>>
            /\ pending' = [pending EXCEPT ![r] = Done(p, Response(400, otpResult.message))]
     ELSE /\ users' = [users EXCEPT ![p.user] =
                 [@ EXCEPT !.isPhoneVerified = TRUE, !.otp = ClearedOtp,
                           !.verificationLevel =
                              preSave(otpResult.user).verificationLevel]]
          /\ tokens' = tokens \cup {p.user}
          /\ pending' = [pending EXCEPT ![r] =
               Done(p, [Response(200, "Phone number verified successfully")
                          EXCEPT !.token = p.user,
                                 !.level = preSave(otpResult.user).verificationLevel])]
  /\ UNCHANGED <<nextUserId, neighborhoods, posts, listings, attempts, now, hist, req, resp, call>>

VerifyRequestIds == 1..MaxVerifyRequests

\* the code register issues with sample 0, and another code
VerifyOtpInputs == {randomOtp(0), randomOtp(999)}

NextVerify ==
  \/ register(Phone1, NoName, 0)
  \/ \E o \in VerifyOtpInputs : verifyOTPReceive(Phone1, o)
  \/ \E r \in VerifyRequestIds : verifyOTPFindOne(r)
  \/ \E r \in VerifyRequestIds : verifyOTPSave(r)

SpecVerify == InitOtp /\ [][NextVerify]_vars

----------------------------------------------------------------------------
(* Properties of the OTP challenge (SpecOtp) *)

IssuingOps == {"register", "login", "resendOTP"}

\* the last request handled issued a challenge
JustIssued == req.op \in IssuingOps /\ resp.status \in {200, 201}

\* the decimal form of a number in 100000..999999
SixDigitCode(c) == Len(c) = 6 /\ IsNumeric(c) /\ c[1] >= 1

\* a verifyOTP request that passes validation and finds its user
Reaches(p, o) == PhoneRegex(p) /\ otpValidation(o) /\ findOneByPhone(p) # 0

(* C1: a verifyOTP that directly follows the issuance of a challenge, with  *)
(* the issued code and not after its expiry, succeeds; a verifyOTP with a   *)
(* code that was already accepted for the current challenge fails with      *)
(* 'No OTP found'.                                                          *)
C1_AcceptedOncePerChallenge ==
  [][\A p \in PhoneInputs, o \in OtpInputs : verifyOTP(p, o) =>
       LET id == findOneByPhone(p) IN
         /\ (JustIssued /\ req.phone = p /\ resp.otp = o
               /\ now <= users[id].otp.expiresAt)
              => (resp'.status = 200 /\ users'[id].isPhoneVerified)
         /\ (Reaches(p, o) /\ hist[id].accepted = o)
              => (resp'.status = 400 /\ resp'.message = "No OTP found")]_vars

(* C2 as stated: once three verifyOTP calls carried an incorrect code       *)
(* against a challenge, every later verifyOTP against it is rejected with   *)
(* 'Maximum attempts exceeded' and leaves isPhoneVerified alone.            *)
C2_ThreeWrongCallsExhaust ==
  [][\A p \in PhoneInputs, o \in OtpInputs : verifyOTP(p, o) =>
       LET id == findOneByPhone(p) IN
         (Reaches(p, o) /\ hist[id].wrong >= 3)
           => /\ resp'.status = 400
              /\ resp'.message = "Maximum attempts exceeded"
              /\ users'[id].isPhoneVerified = users[id].isPhoneVerified]_vars

(* C2 amended: once three verifyOTP calls against a challenge were answered *)
(* 'Invalid OTP', every later verifyOTP against it, the correct code inside *)
(* the validity window included, is rejected with 'Maximum attempts         *)
(* exceeded' and leaves isPhoneVerified alone.                              *)
C2_ThreeInvalidAnswersExhaust ==
  [][\A p \in PhoneInputs, o \in OtpInputs : verifyOTP(p, o) =>
       LET id == findOneByPhone(p) IN
         (Reaches(p, o) /\ hist[id].invalid >= 3)
           => /\ resp'.status = 400
              /\ resp'.message = "Maximum attempts exceeded"
              /\ users'[id].isPhoneVerified = users[id].isPhoneVerified]_vars

\* the correct code, inside the window, was refused after three 'Invalid OTP'
C2_Witness ==
  \E i \in DOMAIN users :
    /\ i \in DOMAIN hist /\ hist[i].invalid >= 3
    /\ req.op = "verifyOTP" /\ req.phone = users[i].phone
    /\ req.otp = users[i].otp.code
    /\ now <= users[i].otp.expiresAt
    /\ resp.message = "Maximum attempts exceeded"
    /\ ~users[i].isPhoneVerified

(* C3: every request that issues a challenge leaves the user with a code in *)
(* 100000..999999, an expiry 10 minutes after the time of the request and   *)
(* an attempt counter of 0.                                                 *)
C3_IssueResetsChallenge ==
  [][\A p \in PhoneInputs, k \in RandSamples :
       ((register(p, NoName, k) \/ login(p, k) \/ resendOTP(p, k))
          /\ resp'.status \in {200, 201})
       => \A i \in DOMAIN users' : users'[i].phone = p =>
            /\ SixDigitCode(users'[i].otp.code)
            /\ users'[i].otp.code = resp'.otp
            /\ users'[i].otp.expiresAt = now + OtpValidityMs
            /\ users'[i].otp.attempts = 0]_vars

OrderedAnswer(u, o, t) ==
  IF u.otp.code = NoCode \/ u.otp.expiresAt = NoDate THEN "No OTP found"
  ELSE IF u.otp.attempts >= 3 THEN "Maximum attempts exceeded"
  ELSE IF t > u.otp.expiresAt THEN "OTP expired"
  ELSE IF u.otp.code # o THEN "Invalid OTP"
  ELSE "Phone number verified successfully"

(* C5: every verifyOTP answers by the first condition that applies, in the  *)
(* order no challenge, attempts >= 3, expiry, mismatch; a challenge that is *)
(* both exhausted and expired is answered 'Maximum attempts exceeded'.      *)
C5_FixedOrderOfChecks ==
  [][\A p \in PhoneInputs, o \in OtpInputs : verifyOTP(p, o) =>
       LET id == findOneByPhone(p) IN
         Reaches(p, o) =>
           /\ resp'.message = OrderedAnswer(users[id], o, now)
           /\ (users[id].otp.attempts >= 3 /\ users[id].otp.code # NoCode
                 /\ now > users[id].otp.expiresAt)
                => resp'.message = "Maximum attempts exceeded"]_vars

\* an exhausted and expired challenge was answered 'Maximum attempts exceeded'
C5_Witness ==
  \E i \in DOMAIN users :
    /\ req.op = "verifyOTP" /\ req.phone = users[i].phone
    /\ users[i].otp.code # NoCode
    /\ users[i].otp.attempts >= 3
    /\ now > users[i].otp.expiresAt
    /\ resp.message = "Maximum attempts exceeded"

----------------------------------------------------------------------------
(* Properties of the guards (SpecGuard, Spec) *)

\* the status the decision table gives (0: admitted)
GuardTable(a, path) ==
  IF a.kind = "none" THEN 401
  ELSE IF a.kind # "valid" THEN 401
  ELSE IF a.sub \notin DOMAIN users THEN 401
  ELSE IF users[a.sub].status # "active" THEN 401
  ELSE IF ~users[a.sub].isPhoneVerified /\ path # "/update-profile" THEN 403
  ELSE 0

\* this step answered the request as the table says
Decided(a, path) ==
  IF GuardTable(a, path) # 0
    THEN /\ resp'.status = GuardTable(a, path)
         /\ resp'.user = 0 /\ resp'.next = 0
         /\ UNCHANGED <<users, neighborhoods>>
    ELSE /\ resp'.user = a.sub /\ resp'.next = 1
         /\ resp'.status \notin {401, 403}

(* C6: protect answers every request by the table: no token, a bad or       *)
(* expired token, a missing user and a non-active user give 401; an active  *)
(* user without verified phone gives 403 except on /update-profile; every   *)
(* other request gets the user attached and next() called once; a rejected  *)
(* request has no user attached and does not reach the handler.             *)
C6_ProtectTable ==
  [][\A a \in AuthInputs, n \in NameInputs :
       /\ getMe(a) => Decided(a, "/me")
       /\ updateProfile(a, n) => Decided(a, "/update-profile")]_vars

\* an active user without verified phone was refused 403 on /me
C6_Witness ==
  /\ req.op = "getMe" /\ req.auth.kind = "valid"
  /\ req.auth.sub \in DOMAIN users
  /\ users[req.auth.sub].status = "active"
  /\ ~users[req.auth.sub].isPhoneVerified
  /\ resp.status = 403 /\ resp.user = 0 /\ resp.next = 0

\* the account behind an issued, unexpired token is no longer usable
Revoked(a) ==
  /\ a.kind = "valid" /\ a.sub \in tokens
  /\ (a.sub \notin DOMAIN users \/ users[a.sub].status # "active")

Refused401 ==
  /\ resp'.status = 401 /\ resp'.user = 0 /\ resp'.next = 0
  /\ UNCHANGED <<users, neighborhoods>>

(* C7: a protected request that carries a token issued to a user whose      *)
(* status is no longer 'active', or whose record is gone, is answered 401   *)
(* and changes nothing, although the token is still valid.                  *)
C7_CurrentStateDecides ==
  [][\A a \in SessionAuthInputs : Revoked(a) =>
       /\ getMe(a) => Refused401
       /\ \A n \in NameInputs : updateProfile(a, n) => Refused401
       /\ \A b \in AddressInputs :
            /\ verifyAddress(a, b) => Refused401
            /\ neighborhoodsVerifyAddress(a, b) => Refused401]_vars

\* a token issued by verifyOTP was refused after the account was suspended
C7_Witness ==
  /\ req.auth.kind = "valid" /\ req.auth.sub \in tokens
  /\ req.auth.sub \in DOMAIN users
  /\ users[req.auth.sub].isPhoneVerified
  /\ users[req.auth.sub].status = "suspended"
  /\ resp.status = 401 /\ resp.message = "Account is suspended or deleted"

(* C8: optionalAuth sends no response and calls next() once for every       *)
(* request; it attaches a user exactly when the token is valid and its user *)
(* exists with status 'active'.                                             *)
C8_OptionalAuthNeverRejects ==
  [][\A a \in AuthInputs : optionalAuthRequest(a) =>
       /\ resp'.status = 0 /\ resp'.next = 1
       /\ resp'.user \in {0, a.sub}
       /\ (resp'.user # 0) <=>
            (a.kind = "valid" /\ a.sub \in DOMAIN users
               /\ users[a.sub].status = "active")]_vars

\* a valid token of a non-active user went through without a user attached
C8_Witness ==
  /\ req.op = "optionalAuth" /\ req.auth.kind = "valid"
  /\ req.auth.sub \in DOMAIN users
  /\ users[req.auth.sub].status # "active"
  /\ resp.status = 0 /\ resp.next = 1 /\ resp.user = 0

----------------------------------------------------------------------------
(* Properties of the stored user (Spec) *)

(* C9: a stored user with isAddressVerified has a neighborhood reference    *)
(* to a stored neighborhood and a full address, pincode, city and state.    *)
C9_VerifiedAddressIsPopulated ==
  \A i \in DOMAIN users : users[i].isAddressVerified =>
    /\ users[i].neighborhood # NoNeighborhood
    /\ users[i].neighborhood \in DOMAIN neighborhoods
    /\ users[i].address.fullAddress # << >>
    /\ users[i].address.pincode # << >>
    /\ users[i].address.city # << >>
    /\ users[i].address.state # << >>

\* a user went through verifyAddress
C9_Witness ==
  /\ req.op = "verifyAddress" /\ resp.status = 200
  /\ \E i \in DOMAIN users :
       users[i].isAddressVerified /\ users[i].neighborhood # NoNeighborhood

\* the level the two flags give
DerivedLevel(u) ==
  IF u.isPhoneVerified /\ u.isAddressVerified THEN "verified"
  ELSE IF u.isAddressVerified THEN "address"
  ELSE IF u.isPhoneVerified THEN "phone"
  ELSE "basic"

(* C10: the verificationLevel of every stored user is the level its two     *)
(* flags give, and a successful address verification reports that level.    *)
C10_LevelFollowsFlags ==
  /\ \A i \in DOMAIN users : users[i].verificationLevel = DerivedLevel(users[i])
  /\ (req.op \in {"verifyAddress", "neighborhoodsVerifyAddress"}
        /\ resp.status = 200 /\ resp.user \in DOMAIN users)
       => resp.level = DerivedLevel(users[resp.user])

----------------------------------------------------------------------------
(* Properties of the neighborhood resolver (SpecNbhd) *)

\* the stored neighborhood records with this pincode
WithPincode(nbs, pincode) == { i \in DOMAIN nbs : nbs[i].pincode = pincode }

\* this step is an address verification with credentials a and body b
VerifiesAddress(a, b) == verifyAddress(a, b) \/ neighborhoodsVerifyAddress(a, b)

(* C11: an address verification for a pincode that already has a record     *)
(* succeeds; after every successful one there is exactly one record for the *)
(* pincode, the user is linked to it, and so is every user who verified an  *)
(* address with that pincode before, whatever city, address or coordinates  *)
(* the requests carried.                                                    *)
C11_SamePincodeSameNeighborhood ==
  [][\A a \in NbhdAuthInputs, b \in NbhdInputs : VerifiesAddress(a, b) =>
       /\ WithPincode(neighborhoods, b.pincode) # {} => resp'.status = 200
       /\ resp'.status = 200 =>
            /\ Cardinality(WithPincode(neighborhoods', b.pincode)) = 1
            /\ users'[a.sub].neighborhood \in WithPincode(neighborhoods', b.pincode)
            /\ \A j \in DOMAIN users :
                 (users[j].isAddressVerified /\ users[j].address.pincode = b.pincode)
                   => users'[j].neighborhood = users'[a.sub].neighborhood]_vars

\* two users verified different addresses and cities under one pincode and
\* share the neighborhood
C11_Witness ==
  /\ users[1].isAddressVerified /\ users[2].isAddressVerified
  /\ users[1].address.pincode = users[2].address.pincode
  /\ users[1].address.city # users[2].address.city
  /\ users[1].neighborhood = users[2].neighborhood
  /\ Cardinality(WithPincode(neighborhoods, users[1].address.pincode)) = 1
  /\ resp.status = 200

\* the fields of a neighborhood record other than its stats
Identity(n) == [name |-> n.name, slug |-> n.slug, full |-> n.full,
                pincode |-> n.pincode, city |-> n.city, state |-> n.state,
                coordinates |-> n.coordinates, geohash |-> n.geohash]

(* C12: an address verification leaves the name, slug, stored address,      *)
(* city, state, coordinates and geohash of every neighborhood that existed  *)
(* before it as they were, also when it resolves to that record with a      *)
(* different address, city or coordinates; only the stats may change.       *)
C12_FirstWriterWins ==
  [][\A a \in NbhdAuthInputs, b \in NbhdInputs : VerifiesAddress(a, b) =>
       \A i \in DOMAIN neighborhoods :
         /\ i \in DOMAIN neighborhoods'
         /\ Identity(neighborhoods'[i]) = Identity(neighborhoods[i])]_vars

\* a record resolved by a request with another city and other coordinates
\* kept its own, and its stats count both residents
C12_Witness ==
  \E i \in DOMAIN neighborhoods :
    /\ resp.status = 200 /\ resp.user \in DOMAIN users
    /\ users[resp.user].neighborhood = i
    /\ users[resp.user].address.city # neighborhoods[i].city
    /\ users[resp.user].address.coordinates # neighborhoods[i].coordinates
    /\ neighborhoods[i].stats.totalResidents = 2

----------------------------------------------------------------------------
(* Properties of registration (SpecRegister) *)

\* the stored users with this phone
WithPhone(us, phone) == { i \in DOMAIN us : us[i].phone = phone }

(* C13: under every interleaving of register requests there is at most one  *)
(* user per phone number; a step of a register request that finds a user    *)
(* with its phone number ends the request with an error response and leaves *)
(* the users, the existing one and its OTP challenge included, as they      *)
(* were; a register request that answered 201 created its user.             *)
C13_OneUserPerPhone ==
  [][/\ \A i, j \in DOMAIN users' : users'[i].phone = users'[j].phone => i = j
     /\ \A r \in DOMAIN pending' : pending'[r].pc = "done" =>
          (pending'[r].resp.status = 201 <=> pending'[r].user \in DOMAIN users')
     /\ \A r \in RequestIds :
          ((registerFindOne(r) \/ registerCreate(r))
             /\ WithPhone(users, pending[r].phone) # {})
          => /\ pending'[r].pc = "done"
             /\ pending'[r].resp.status = 400
             /\ users' = users]_vars

\* two requests for one phone both passed findOne; the second create was
\* refused by the index and the user of the first kept its challenge
C13_Witness ==
  \E r1, r2 \in DOMAIN pending :
    /\ pending[r1].resp.status = 201
    /\ pending[r2].resp.message = "Duplicate field value entered for phone"
    /\ pending[r1].phone = pending[r2].phone /\ pending[r1].k # pending[r2].k
    /\ Cardinality(WithPhone(users, pending[r1].phone)) = 1
    /\ users[pending[r1].user].otp.code = randomOtp(pending[r1].k)

----------------------------------------------------------------------------
(* Properties of neighborhood creation (SpecCreate) *)

\* a stored neighborhood has this name and pincode
PairStored(nbs, name, pincode) ==
  \E i \in DOMAIN nbs : nbs[i].name = name /\ nbs[i].pincode = pincode

\* request r ended with an error and no neighborhood was written
CreationRefused(r) ==
  /\ pending'[r].pc = "done" /\ pending'[r].resp.status >= 400
  /\ neighborhoods' = neighborhoods

(* C14: under every interleaving of address verifications and               *)
(* createNeighborhood calls no two stored neighborhoods have the same name  *)
(* and pincode; a create of verifyAddress, and a findOne or a save of       *)
(* createNeighborhood, that meets a stored record with its name and pincode *)
(* ends in an error and adds no record.                                     *)
C14_UniqueNameAndPincode ==
  [][/\ \A i, j \in DOMAIN neighborhoods' :
          (neighborhoods'[i].name = neighborhoods'[j].name
             /\ neighborhoods'[i].pincode = neighborhoods'[j].pincode) => i = j
     /\ \A r \in RequestIds :
          /\ (verifyAddressCreate(r)
                /\ PairStored(neighborhoods,
                      Trim(pending[r].body.city \o <<" ", "-", " ">>
                             \o DigitsToChars(pending[r].body.pincode)),
                      pending[r].body.pincode))
               => CreationRefused(r)
          /\ (createNeighborhoodSave(r)
                /\ PairStored(neighborhoods, Trim(pending[r].body.name),
                              pending[r].body.pincode))
               => CreationRefused(r)
     /\ \A d \in DataInputs :
          (createNeighborhoodFindOne(d) /\ PairStored(neighborhoods, d.name, d.pincode))
            => CreationRefused(Len(pending'))]_vars

\* a create that raced with another one for the same name and pincode was
\* refused by the index on slug, and the pair is stored once
C14_Witness ==
  \E r \in DOMAIN pending, i \in DOMAIN neighborhoods :
    /\ pending[r].op = "verifyAddress"
    /\ pending[r].resp.message = "Duplicate field value entered for slug"
    /\ neighborhoods[i].pincode = pending[r].body.pincode
    /\ neighborhoods[i].city = pending[r].body.city
    /\ Cardinality({ j \in DOMAIN neighborhoods :
                       neighborhoods[j].name = neighborhoods[i].name }) = 1

----------------------------------------------------------------------------
(* Properties of the statistics of a neighborhood (SpecStats) *)

ActiveResidents(id) ==
  { i \in DOMAIN users : users[i].neighborhood = id /\ users[i].status = "active" }

(* C15: after a statistics request refreshed a neighborhood, its            *)
(* totalResidents is the number of active users linked to it, its           *)
(* verifiedResidents the number of those whose phone and address are        *)
(* verified (at most totalResidents), its totalPosts the number of active   *)
(* posts of the neighborhood, and activeEvents and marketplaceListings are  *)
(* what they were.                                                          *)
C15_UpdateStatsCounts ==
  [][\A a \in NbhdAuthInputs, id \in StatsIds :
       (getNeighborhoodStats(a, id) /\ resp'.status = 200) =>
         LET s == neighborhoods'[id].stats
             old == neighborhoods[id].stats
         IN /\ s.totalResidents = Cardinality(ActiveResidents(id))
            /\ s.verifiedResidents =
                 Cardinality({ i \in ActiveResidents(id) :
                    users[i].isPhoneVerified /\ users[i].isAddressVerified })
            /\ s.verifiedResidents <= s.totalResidents
            /\ s.totalPosts =
                 Cardinality({ p \in posts :
                    p.neighborhood = id /\ p.status = "active" })
            /\ s.activeEvents = old.activeEvents
            /\ s.marketplaceListings = old.marketplaceListings]_vars

\* a refreshed neighborhood with two active residents of whom one is
\* verified, one active and one deleted post, and counters of its own
C15_Witness ==
  /\ resp.message = "Neighborhood statistics retrieved successfully"
  /\ \E id \in DOMAIN neighborhoods :
       /\ neighborhoods[id].stats.totalResidents = 2
       /\ neighborhoods[id].stats.verifiedResidents = 1
       /\ neighborhoods[id].stats.totalPosts = 1
       /\ neighborhoods[id].stats.activeEvents = 1
       /\ neighborhoods[id].stats.marketplaceListings = 2
       /\ \E p \in posts : p.neighborhood = id /\ p.status = "deleted"

----------------------------------------------------------------------------
(* Properties of generateGeohash (SpecGeohash) *)

GeohashAlphabet ==
  <<"0", "1", "2", "3", "4", "5", "6", "7", "8", "9",
    "b", "c", "d", "e", "f", "g", "h", "j", "k", "m",
    "n", "p", "q", "r", "s", "t", "u", "v", "w", "x", "y", "z">>

\* the cell of x when [lo, hi] is cut into 2^n equal cells, the upper end
\* belonging to the last one: n bisections with bit 1 when x >= midpoint
\* spell this number, most significant bit first
CellOf(x, lo, hi, n) ==
  IF x >= hi THEN 2^n - 1 ELSE (x - lo) \div ((hi - lo) \div 2^n)

\* bit k (from 0, most significant first) of the n-bit number c
BitOf(c, n, k) == (c \div 2^(n - 1 - k)) % 2

\* bit t (from 0) of the reference encoding at precision p: longitude on
\* even t, latitude on odd t
ReferenceBit(lat, lng, p, t) ==
  LET nLng == (5 * p + 1) \div 2
      nLat == (5 * p) \div 2
  IN IF t % 2 = 0
       THEN BitOf(CellOf(lng, -180 * CoordScale, 180 * CoordScale, nLng), nLng, t \div 2)
       ELSE BitOf(CellOf(lat, -90 * CoordScale, 90 * CoordScale, nLat), nLat, t \div 2)

ReferenceGeohash(lat, lng, p) ==
  [j \in 1..p |->
     LET b(k) == ReferenceBit(lat, lng, p, 5 * (j - 1) + k)
     IN GeohashAlphabet[1 + 16 * b(0) + 8 * b(1) + 4 * b(2) + 2 * b(3) + b(4)]]

(* C16: generateGeohash of a latitude in [-90, 90], a longitude in          *)
(* [-180, 180] and a precision p >= 1 is a string of p characters of the    *)
(* alphabet 0123456789bcdefghjkmnpqrstuvwxyz, and it is the reference       *)
(* encoding of these three inputs.                                          *)
C16_GeohashIsReference ==
  call.fn = "generateGeohash" =>
    /\ Len(call.result) = call.args[3]
    /\ \A j \in DOMAIN call.result :
         \E k \in DOMAIN GeohashAlphabet : call.result[j] = GeohashAlphabet[k]
    /\ call.result = ReferenceGeohash(call.args[1], call.args[2], call.args[3])

\* the geohash of a point on a midpoint of both ranges, at the precision the
\* schema uses, and the geohash of a corner of the ranges
C16_Witness ==
  /\ call.fn = "generateGeohash"
  /\ \/ call.args = <<0, 0, GeohashPrecision>> /\ call.result[1] = "s"
     \/ call.args = <<90 * CoordScale, 180 * CoordScale, 1>> /\ call.result = <<"z">>

(* C17: the geohash of a point at precision p is the prefix of length p of  *)
(* its geohash at every precision q >= p; two points whose geohashes at     *)
(* precision 7 are equal have equal geohashes at every lower precision.     *)
C17_GeohashPrefix ==
  /\ (call.fn = "generateGeohashTwice" /\ call.args[3] <= call.args[4]) =>
       call.result[1] = SubSeq(call.result[2], 1, call.args[3])
  /\ (call.fn = "generateGeohashPair" /\ call.result[1] = call.result[2]) =>
       call.result[3] = call.result[4]

\* two different points in one cell at precision 7, compared at a lower
\* precision
C17_Witness ==
  /\ call.fn = "generateGeohashPair"
  /\ call.args[1] # call.args[2]
  /\ call.result[1] = call.result[2]
  /\ call.args[3] < GeohashPrecision

----------------------------------------------------------------------------
(* Properties of the slug (SpecSlug) *)

\* the lowercased name with every maximal run of characters outside [a-z0-9]
\* that has a character of [a-z0-9] before it and one after it turned into
\* one '-', and the runs at the two ends dropped
ReferenceSlug(name) ==
  LET low == ToLowerCase(name)
      n == Len(low)
      Plain(i) == low[i] \in SlugChars
      Keep(i) ==
        \/ Plain(i)
        \/ /\ i > 1 /\ Plain(i - 1)
           /\ \E j \in (i + 1)..n : Plain(j)
      kept == SelectSeq([i \in 1..n |-> i], Keep)
  IN [k \in 1..Len(kept) |-> IF Plain(kept[k]) THEN low[kept[k]] ELSE "-"]

ExampleSlug ==
  <<"k", "o", "r", "a", "m", "a", "n", "g", "a", "l", "a", "-",
    "5", "t", "h", "-", "b", "l", "o", "c", "k">>

(* C18: the slug derived from a name is the lowercased name with every      *)
(* maximal run of characters outside [a-z0-9] replaced by one '-' and       *)
(* without a '-' at either end; "Koramangala 5th Block!!" gives             *)
(* "koramangala-5th-block"; a slug has no two '-' in a row and no           *)
(* character other than a-z, 0-9 and '-'.                                   *)
C18_SlugOfName ==
  call.fn = "validateNew" =>
    LET slug == call.result IN
    /\ slug = ReferenceSlug(call.args[1])
    /\ call.args[1] = ExampleName => slug = ExampleSlug
    /\ slug # << >> => slug[1] # "-" /\ slug[Len(slug)] # "-"
    /\ \A i \in 1..(Len(slug) - 1) : ~(slug[i] = "-" /\ slug[i + 1] = "-")
    /\ \A i \in DOMAIN slug : slug[i] \in SlugChars \cup {"-"}

\* the name of the example, and a name with runs at both ends and inside
C18_Witness ==
  /\ call.fn = "validateNew"
  /\ \/ call.args[1] = ExampleName /\ call.result = ExampleSlug
     \/ call.args[1] = <<"!", " ", "A">> /\ call.result = <<"a">>

----------------------------------------------------------------------------
(* Properties of the OTP challenge after an exhaustion (SpecOtp) *)

(* C19: when login or resend-otp issues a challenge to a user whose         *)
(* attempt counter had reached 3, a verifyOTP with the code just issued,    *)
(* made before its expiry, is accepted and sets isPhoneVerified.            *)
C19_IssueAfterExhaustionVerifies ==
  [][\A p \in PhoneInputs, k \in RandSamples :
       LET id == findOneByPhone(p) IN
       ((login(p, k) \/ resendOTP(p, k))
          /\ resp'.status = 200 /\ users[id].otp.attempts >= MaxOtpAttempts)
       => LET otpResult == User_verifyOTP(users'[id], resp'.otp, now) IN
            /\ now <= users'[id].otp.expiresAt
            /\ otpResult.valid
            /\ otpResult.user.isPhoneVerified]_vars

\* the challenge and the phone flag of every user but the given one are
\* what they were
OthersKept(id) ==
  /\ DOMAIN users' = DOMAIN users
  /\ \A i \in DOMAIN users \ {id} :
       users'[i].otp = users[i].otp
         /\ users'[i].isPhoneVerified = users[i].isPhoneVerified

(* C20: a verifyOTP that fails with 'Invalid OTP' was given a code other    *)
(* than the stored one and adds exactly 1 to the stored attempt counter,    *)
(* leaving code, expiry and isPhoneVerified as they were; a verifyOTP that  *)
(* fails in any other way leaves the stored code, expiry, attempt counter   *)
(* and isPhoneVerified of every user as they were.                          *)
C20_FailureChangesOnlyCounter ==
  [][\A p \in PhoneInputs, o \in OtpInputs :
       (verifyOTP(p, o) /\ resp'.status # 200) =>
         LET id == findOneByPhone(p) IN
         IF resp'.message = "Invalid OTP"
           THEN /\ id # 0
                /\ users[id].otp.code # o
                /\ users'[id].otp.attempts = users[id].otp.attempts + 1
                /\ users'[id].otp.code = users[id].otp.code
                /\ users'[id].otp.expiresAt = users[id].otp.expiresAt
                /\ users'[id].isPhoneVerified = users[id].isPhoneVerified
                /\ OthersKept(id)
           ELSE /\ resp'.message \in {"Validation failed", "User not found",
                                      "No OTP found", "Maximum attempts exceeded",
                                      "OTP expired"}
                /\ OthersKept(0)]_vars

\* a challenge that counted a mismatch was then refused as expired, the
\* counted mismatch still stored
C20_Witness ==
  \E i \in DOMAIN users :
    /\ req.op = "verifyOTP" /\ req.phone = users[i].phone
    /\ resp.message = "OTP expired"
    /\ i \in DOMAIN hist /\ hist[i].invalid >= 1
    /\ users[i].otp.attempts >= 1
    /\ ~users[i].isPhoneVerified

----------------------------------------------------------------------------
(* Properties of the phone flag (SpecPhone) *)

(* C21: in every step, a user whose isPhoneVerified turns from false to     *)
(* true is the user of a verifyOTP request whose code is the stored code,   *)
(* whose stored attempt counter is below 3 and whose time is not past the   *)
(* stored expiry; register, login, resendOTP, updateProfile and             *)
(* verifyAddress never set it, and a new user starts with it false.         *)
C21_OnlyVerifyOtpSetsPhoneFlag ==
  [][\A i \in DOMAIN users' :
       IF i \in DOMAIN users
         THEN (~users[i].isPhoneVerified /\ users'[i].isPhoneVerified) =>
                /\ req'.op = "verifyOTP"
                /\ req'.phone = users[i].phone
                /\ req'.otp = users[i].otp.code
                /\ users[i].otp.code # NoCode
                /\ users[i].otp.attempts < 3
                /\ now <= users[i].otp.expiresAt
         ELSE ~users'[i].isPhoneVerified]_vars

\* a user verified by a verifyOTP made after the clock advanced, who then
\* verified an address
C21_Witness ==
  \E i \in DOMAIN users :
    /\ users[i].isPhoneVerified /\ users[i].isAddressVerified
    /\ now > 0
    /\ req.op = "verifyAddress" /\ resp.status = 200

----------------------------------------------------------------------------
(* Properties of verify-otp requests in flight (SpecVerify) *)

\* the requests among pend that compared a code with the stored code of the
\* user and found it different
FailedComparisons(pend, id) ==
  { r \in DOMAIN pend :
      /\ pend[r].op = "verifyOTP" /\ pend[r].pc \in {"save", "done"}
      /\ pend[r].user = id
      /\ pend[r].created.message = "Invalid OTP" }

(* C22: a verifyOTP request that found the code different saves the counter *)
(* its own copy of the user held plus 1, whatever other requests stored in  *)
(* between; the stored counter is therefore never above the number of       *)
(* failed comparisons, and (witness) concurrent requests that read the same *)
(* counter leave it below that number, after more than 3 incorrect codes    *)
(* were compared against one challenge.                                     *)
C22_IncrementIsReadModifyWrite ==
  [][/\ \A r \in VerifyRequestIds :
          (verifyOTPSave(r) /\ r \in FailedComparisons(pending, pending[r].user))
            => users'[pending[r].user].otp.attempts = pending[r].found + 1
     /\ \A id \in DOMAIN users' :
          users'[id].otp.attempts <= Cardinality(FailedComparisons(pending', id))]_vars

\* four incorrect codes were compared against one challenge, every request
\* was answered, and the stored counter is 3
C22_Witness ==
  \E id \in DOMAIN users :
    /\ \A r \in DOMAIN pending : pending[r].pc = "done"
    /\ Cardinality(FailedComparisons(pending, id)) > MaxOtpAttempts
    /\ users[id].otp.attempts < Cardinality(FailedComparisons(pending, id))
    /\ users[id].otp.code # NoCode
    /\ ~users[id].isPhoneVerified

----------------------------------------------------------------------------
(* Properties of address verifications in flight (SpecFindOrCreate) *)

(* C23: a verifyAddress request that found no record for its pincode and    *)
(* reaches its create after another request stored one does not reuse that  *)
(* record: it stores a second record for the pincode, or it fails on the    *)
(* unique slug; (witness) two records then exist for one pincode.           *)
C23_FindOrCreateRaces ==
  [][\A r \in RequestIds :
       (verifyAddressCreate(r)
          /\ findOneByPincode(neighborhoods, pending[r].body.pincode) # 0)
       => \/ /\ Len(neighborhoods') = Len(neighborhoods) + 1
             /\ neighborhoods'[Len(neighborhoods')].pincode = pending[r].body.pincode
             /\ pending'[r].found = Len(neighborhoods')
          \/ /\ neighborhoods' = neighborhoods
             /\ pending'[r].pc = "done"
             /\ pending'[r].resp.message = "Duplicate field value entered for slug"]_vars

\* two records for one pincode, each with a user linked to it, after both
\* requests were answered 200
C23_Witness ==
  \E i, j \in DOMAIN neighborhoods :
    /\ i # j /\ neighborhoods[i].pincode = neighborhoods[j].pincode
    /\ \E u, v \in DOMAIN users :
         users[u].neighborhood = i /\ users[v].neighborhood = j
    /\ \A r \in DOMAIN pending :
         pending[r].pc = "done" /\ pending[r].resp.status = 200
----------------------------------------------------------------------------
(* Properties of a successful address verification (SpecNbhd) *)

\* the coordinates a verification stores for a request body
StoredCoordinates(b) == IF b.coordinates = NoCoords THEN ZeroCoords ELSE b.coordinates

\* the active users linked to neighborhood nid
ActiveLinked(us, nid) ==
  { i \in DOMAIN us : us[i].neighborhood = nid /\ us[i].status = "active" }

(* C24: a successful address verification leaves the user linked to the     *)
(* neighborhood resolved for the pincode, with isAddressVerified true, the  *)
(* address fields of the request and the geohash of that neighborhood; the  *)
(* stats the request writes are computed after the user update, so they     *)
(* count the verifying user when the user is active.                        *)
C24_VerifiedUserIsLinkedAndCounted ==
  [][\A a \in NbhdAuthInputs, b \in NbhdInputs :
       (VerifiesAddress(a, b) /\ resp'.status = 200) =>
         LET u == users'[a.sub]
             nid == u.neighborhood
         IN /\ nid \in WithPincode(neighborhoods', b.pincode)
            /\ u.isAddressVerified
            /\ u.address.fullAddress = b.fullAddress
            /\ u.address.pincode = b.pincode
            /\ u.address.city = b.city
            /\ u.address.state = b.state
            /\ u.address.coordinates = StoredCoordinates(b)
            /\ u.address.geohash = neighborhoods'[nid].geohash
            /\ u.status = "active" =>
                 /\ a.sub \in ActiveLinked(users', nid)
                 /\ neighborhoods'[nid].stats.totalResidents =
                      Cardinality(ActiveLinked(users', nid))]_vars

\* a verification joined a record that already had a resident, and the
\* stats it wrote count both
C24_Witness ==
  /\ req.op \in {"verifyAddress", "neighborhoodsVerifyAddress"}
  /\ resp.status = 200 /\ resp.user \in DOMAIN users
  /\ users[resp.user].isAddressVerified
  /\ users[resp.user].neighborhood \in DOMAIN neighborhoods
  /\ users[resp.user].address.geohash =
       neighborhoods[users[resp.user].neighborhood].geohash
  /\ Cardinality(ActiveLinked(users, users[resp.user].neighborhood)) = 2
  /\ neighborhoods[users[resp.user].neighborhood].stats.totalResidents = 2

(* C25: after every successful address verification the geohash stored in   *)
(* the user's address is the precision-7 geohash of the coordinates stored  *)
(* in that same address.                                                    *)
C25_UserGeohashOfUserCoordinates ==
  [][\A a \in NbhdAuthInputs, b \in NbhdInputs :
       (VerifiesAddress(a, b) /\ resp'.status = 200) =>
         users'[a.sub].address.geohash =
           generateGeohash(users'[a.sub].address.coordinates[1],
                           users'[a.sub].address.coordinates[2], 7)]_vars
----------------------------------------------------------------------------
(* The limiter specification: a limiter built with some maxAttempts and    *)
(* windowMs serves requests from two addresses while the clock advances     *)

RateIdentifiers == {"10.0.0.1", "10.0.0.2"}

\* the applications authRateLimit(maxAttempts, windowMs) that build a limiter
LimiterInputs ==
  { [fn |-> "authRateLimit", args |-> <<m, w>>, result |-> << >>] :
      m \in 1..MaxAttemptsLimit, w \in 1..MaxWindowMs }

InitLimiter ==
  /\ users = << >>
  /\ nextUserId = 1
  /\ neighborhoods = << >>
  /\ posts = {}
  /\ listings = {}
  /\ attempts = << >>
  /\ tokens = {}
  /\ now = 0
  /\ hist = << >>
  /\ req = Request("init", << >>, << >>, NoAuth, "")
  /\ resp = Response(0, "")
  /\ pending = << >>
  /\ call \in LimiterInputs

NextLimiter ==
  \/ \E identifier \in RateIdentifiers : authRateLimit(identifier)
  \/ now + 1 <= MaxClock /\ Tick(1)

SpecLimiter == InitLimiter /\ [][NextLimiter]_vars

----------------------------------------------------------------------------
(* The content specifications: two active, phone-verified users, each with  *)
(* no neighborhood or linked to one of two stored neighborhoods             *)

ContentAuthInputs == {NoAuth} \cup NbhdAuthInputs

InitContent ==
  /\ \E nb \in [GuardIds -> {NoNeighborhood, 1, 2}] :
       users = [i \in GuardIds |->
                  Resident(i, "active", TRUE, nb[i] # NoNeighborhood, nb[i])]
  /\ nextUserId = 3
  /\ neighborhoods = <<Neighborhood1, Neighborhood2>>
  /\ posts = {}
  /\ listings = {}
  /\ attempts = << >>
  /\ tokens = GuardIds
  /\ now = 0
  /\ hist = << >>
  /\ req = Request("init", << >>, << >>, NoAuth, "")
  /\ resp = Response(0, "")
  /\ pending = << >>
  /\ call = NoCall

(* Posts are created (SpecPosts) *)

\* bodies of POST /api/posts/create: some or blank content, and no
\* neighborhood, one that is no ObjectId, or the id of a neighborhood
PostBodies ==
  { [content |-> c, neighborhood |-> n] :
      c \in {<<"H", "i">>, <<" ">>},
      n \in {NoNeighborhood, InvalidObjectId, 1, 2} }

NextPosts == \E a \in ContentAuthInputs, b \in PostBodies : createPost(a, b)

SpecPosts == InitContent /\ [][NextPosts]_vars

(* Listings are created and browsed (SpecMarket) *)

Categories == {"books", "furniture"}

\* the ids a client asks for: those of stored listings and an unknown one
ListingIds == 1..(MaxListings + 1)

NextMarket ==
  \/ \E a \in ContentAuthInputs, c \in Categories : createListing(a, c)
  \/ \E a \in ContentAuthInputs : getListings(a)
  \/ \E a \in ContentAuthInputs : getTrendingListings(a)
  \/ \E a \in ContentAuthInputs, c \in Categories : getListingsByCategory(a, c)
  \/ \E a \in ContentAuthInputs, id \in ListingIds : getListing(a, id)

SpecMarket == InitContent /\ [][NextMarket]_vars

(* A post and a listing of neighborhood 1 are liked and unliked (SpecLikes) *)

InitLikes ==
  /\ \E nb \in [GuardIds -> {NoNeighborhood, 1, 2}] :
       users = [i \in GuardIds |->
                  Resident(i, "active", TRUE, nb[i] # NoNeighborhood, nb[i])]
  /\ nextUserId = 3
  /\ neighborhoods = <<Neighborhood1, Neighborhood2>>
  /\ posts = {NewPost(1, 1, 1)}
  /\ listings = {NewListing(1, 1, 1, "books")}
  /\ attempts = << >>
  /\ tokens = GuardIds
  /\ now = 0
  /\ hist = << >>
  /\ req = Request("init", << >>, << >>, NoAuth, "")
  /\ resp = Response(0, "")
  /\ pending = << >>
  /\ call = NoCall

\* the ids a client asks for: the stored document and an unknown one
LikeIds == {1, 2}

NextLikes ==
  \/ \E a \in ContentAuthInputs, id \in LikeIds : toggleLike(a, id)
  \/ \E a \in ContentAuthInputs, id \in LikeIds : marketplaceToggleLike(a, id)

SpecLikes == InitLikes /\ [][NextLikes]_vars

----------------------------------------------------------------------------
(* Properties of posts, listings and likes *)

(* C27: every post created through POST /api/posts/create is stored with   *)
(* the neighborhood of the user who created it.                             *)
C27_PostInOwnNeighborhood ==
  [][\A a \in ContentAuthInputs, b \in PostBodies :
       (createPost(a, b) /\ resp'.status = 201) =>
         \A p \in posts' \ posts :
           /\ p.author = a.sub
           /\ p.neighborhood = users[a.sub].neighborhood]_vars

\* this step is one of the browse requests of a with status 200
Browses(a) ==
  /\ \/ getListings(a)
     \/ getTrendingListings(a)
     \/ \E c \in Categories : getListingsByCategory(a, c)
     \/ \E id \in ListingIds : getListing(a, id)
  /\ resp'.status = 200

(* C28: every listing the browse endpoints (listings, trending,             *)
(* category/:category, :id) return to a user belongs to that user's         *)
(* neighborhood.                                                            *)
C28_BrowseOwnNeighborhood ==
  [][\A a \in ContentAuthInputs : Browses(a) =>
       \A l \in listings' :
         l.id \in resp'.listings => l.neighborhood = users[a.sub].neighborhood]_vars

\* the response and the stored likes list of a toggle by user u that turned
\* document before into document after
Toggled(before, after, u) ==
  /\ isLikedBy(after, u) = ~isLikedBy(before, u)
  /\ Cardinality({ i \in 1..Len(after.likes) : after.likes[i] = u }) <= 1
  /\ \A v \in GuardIds \ {u} : isLikedBy(after, v) = isLikedBy(before, v)
  /\ resp'.liked = isLikedBy(after, u)
  /\ resp'.likeCount = Len(after.likes)

(* C29: a successful toggleLike on a post or a listing flips the user's     *)
(* membership in the likes list, in which a user appears at most once, and  *)
(* answers with liked equal to the membership after the toggle and          *)
(* likeCount equal to the number of likes stored after it.                  *)
C29_ToggleReportsStoredLikes ==
  [][\A a \in ContentAuthInputs, id \in LikeIds :
       /\ (toggleLike(a, id) /\ resp'.status = 200) =>
            \A p \in FindById(posts, id), q \in FindById(posts', id) :
              Toggled(p, q, a.sub)
       /\ (marketplaceToggleLike(a, id) /\ resp'.status = 200) =>
            \A p \in FindById(listings, id), q \in FindById(listings', id) :
              Toggled(p, q, a.sub)]_vars
----------------------------------------------------------------------------
(* Tokens are validated while accounts are suspended, restored and removed  *)
(* (SpecToken)                                                              *)

NextToken ==
  \/ \E a \in AuthInputs : validateToken(a)
  \/ \E i \in GuardIds, s \in Statuses : AdminSetStatus(i, s)
  \/ \E i \in GuardIds : AdminRemoveUser(i)

SpecToken == InitGuard /\ [][NextToken]_vars

\* the token is good and its user is stored with status 'active'
ActiveTokenHolder(a) ==
  jwtVerify(a) /\ a.sub \in DOMAIN users /\ users[a.sub].status = "active"

(* C30: validateToken answers success with valid: true and the id, phone,   *)
(* name, verification flags and role of the user for every request whose    *)
(* token is valid and whose user is stored with status 'active', and 401 in *)
(* every other case.                                                        *)
C30_ValidateTokenTable ==
  [][\A a \in AuthInputs : validateToken(a) =>
       IF ActiveTokenHolder(a)
         THEN /\ resp'.status = 200
              /\ resp'.valid
              /\ resp'.body = [id |-> a.sub, phone |-> users[a.sub].phone,
                               name |-> users[a.sub].name,
                               isPhoneVerified |-> users[a.sub].isPhoneVerified,
                               isAddressVerified |-> users[a.sub].isAddressVerified,
                               role |-> users[a.sub].role]
       ELSE resp'.status = 401]_vars

====
